---- MODULE Spec2Model ----
(***************************************************************************)
(* Model of easybuild/tools/run.py: the shell-command execution engine.    *)
(*                                                                         *)
(* One caller thread issues calls of run_shell_cmd, run_cmd and run_cmd_qa *)
(* one after the other.  A call is a sequence of steps (pc) so that the    *)
(* child process (ProcWrite, ProcExit) and the clock (Tick) can interleave *)
(* with it.  The cache dictionaries that run_cmd_cache closes over are     *)
(* state that survives from one call to the next.                          *)
(*                                                                         *)
(* Texts are sequences of tokens; a command string is its words with the   *)
(* blanks between them, a command list is its words alone.                 *)
(***************************************************************************)
EXTENDS Integers, Sequences, FiniteSets, TLC

\* ------------------------------------------------------------------ bounds
\* number of calls the caller makes in one behaviour
MaxCalls == 2
\* the clock stops advancing after this many ticks past the start of a call
MaxTime == 2
\* chunks of output a child writes at most
MaxChunks == 1
\* chunks of output an interactive child writes at most
MaxQAChunks == 3
\* replies of one call of run_shell_cmd that are recorded: the record of what
\* the child was sent (proc.input, the "answer" events) stops growing there
MaxReplies == 3
\* chunks of output a child writes at most when its output is scanned for errors
MaxLogChunks == 3
\* tokens of a log text handed to extract_errors_from_log at most
MaxLogLen == 3
\* calls of check_async_cmd made for one asynchronous command at most
MaxChecks == 3

\* ------------------------------------------------------------- basic values
None == "None"
SP == " "

TYPE_MODULE == <<"type", SP, "module">>
ULIMIT_U == <<"ulimit", SP, "-u">>

CACHED_COMMANDS ==
    { <<"sysctl", SP, "-n", SP, "hw.cpufrequency_max">>,
      <<"sysctl", SP, "-n", SP, "hw.memsize">>,
      <<"sysctl", SP, "-n", SP, "hw.ncpu">>,
      <<"sysctl", SP, "-n", SP, "machdep.cpu.brand_string">>,
      <<"sysctl", SP, "-n", SP, "machdep.cpu.vendor">>,
      TYPE_MODULE,
      <<"type", SP, "_module_raw">>,
      ULIMIT_U }

StrCmd(toks) == [type |-> "str", val |-> toks]
ListCmd(words) == [type |-> "list", val |-> words]

\* str.strip(): leading and trailing blanks removed
RECURSIVE LStrip(_)
LStrip(s) == IF s # <<>> /\ Head(s) = SP THEN LStrip(Tail(s)) ELSE s

RECURSIVE RStrip(_)
RStrip(s) ==
    IF s # <<>> /\ s[Len(s)] = SP THEN RStrip(SubSeq(s, 1, Len(s) - 1)) ELSE s

Strip(s) == RStrip(LStrip(s))

\* ' '.join(words)
RECURSIVE Join(_)
Join(words) ==
    IF words = <<>> THEN <<>>
    ELSE IF Len(words) = 1 THEN <<Head(words)>>
    ELSE <<Head(words), SP>> \o Join(Tail(words))

\* to_cmd_str: the display string of a command
to_cmd_str(cmd) == IF cmd.type = "str" THEN Strip(cmd.val) ELSE Join(cmd.val)

\* a Python string-or-None used as a condition
Truthy(v) == v # None /\ v # ""

\* bytes.decode(encoding, 'ignore'): bytes that do not decode are dropped
RECURSIVE Decode(_)
Decode(bytes) ==
    IF bytes = <<>> THEN <<>>
    ELSE IF Head(bytes) = "\\xff" THEN Decode(Tail(bytes))
    ELSE <<Head(bytes)>> \o Decode(Tail(bytes))

\* the stderr field of a result: None, or the text of the error stream
NoStderr == [type |-> "none", val |-> <<>>]
StderrText(toks) == [type |-> "str", val |-> toks]

RunShellCmdResult(cmd, exit_code, output, stderr, work_dir, out_file, err_file) ==
    [cmd |-> cmd, exit_code |-> exit_code, output |-> output, stderr |-> stderr,
     work_dir |-> work_dir, out_file |-> out_file, err_file |-> err_file,
     thread_id |-> None, task_id |-> None]

\* ------------------------------------------------------------------- state
VARIABLES
    errors_found_in_log, \* the counter of the module (line 74)
    strictness,        \* the strictness level of the module (line 77)
    extended_dry_run,  \* build_option('extended_dry_run')
    cache,             \* cache[fn]: the dict of the run_cmd_cache closure of fn
    pc,                \* position of the caller in the current call
    call,              \* arguments of the current (or last completed) call
    loc,               \* local variables of the current call
    proc,              \* the child process and its Popen object
    pipe,              \* output written by the child and not yet read
    elapsed,           \* ticks since the start time of the call
    events,            \* what the current call has done, in order
    outcome,           \* how the last completed call ended
    prev,              \* summary of the call completed before the current one
    ncalls,            \* calls started so far
    caller             \* what outlives the call: the objects the caller passed
                       \* by reference, and the working directory of the process

vars == <<errors_found_in_log, strictness, extended_dry_run, cache, pc, call,
          loc, proc, pipe, elapsed, events, outcome, prev, ncalls, caller>>

NoCall == [fn |-> None]
NoLoc == [cmd_str |-> <<>>]
NoCmd == [type |-> "none", val |-> <<>>]
NoProc == [st |-> "none", ec |-> 0, returncode_set |-> FALSE,
           sigterm |-> FALSE, sigkill |-> FALSE, written |-> 0, input |-> <<>>,
           cmd |-> NoCmd, out |-> <<>>, reading |-> FALSE]
NoOutcome == [kind |-> None]
NoPrev == [fn |-> None]
\* the caller holds no list yet, and the process is in its starting directory
NoCaller == [qa_patterns |-> <<>>, cmd |-> NoCmd, cwd |-> "cwd"]

Funcs == {"run_shell_cmd", "run_cmd"}
EmptyDict == [k \in {} |-> None]

\* the strictness levels (imported at line 66)
IGNORE == "ignore"
WARN == "warn"
ERROR == "error"

\* nothing has been called yet (line 74: errors_found_in_log = 0)
NoCallYet ==
    /\ errors_found_in_log = 0
    /\ cache = [f \in Funcs |-> EmptyDict]
    /\ pc = "idle"
    /\ call = NoCall
    /\ loc = NoLoc
    /\ proc = NoProc
    /\ pipe = <<>>
    /\ elapsed = 0
    /\ events = <<>>
    /\ outcome = NoOutcome
    /\ prev = NoPrev
    /\ ncalls = 0
    /\ caller = NoCaller

\* line 77: strictness = WARN
Init ==
    /\ strictness = WARN
    /\ extended_dry_run \in BOOLEAN
    /\ NoCallYet

\* ------------------------------------------------------------ the result cache
\* dict assignment d[k] = v
Put(d, k, v) == [x \in (DOMAIN d) \cup {k} |-> IF x = k THEN v ELSE d[x]]

\* the input a call passes by keyword: 'stdin' (run_shell_cmd) or 'inp' (run_cmd)
KwInput(c) == IF c.fn = "run_shell_cmd" THEN c.stdin ELSE c.inp

\* key = (cmd, kwargs.get('stdin', None) or kwargs.get('inp', None))
CacheKey(c) == <<c.cmd, IF Truthy(KwInput(c)) THEN KwInput(c) ELSE None>>

\* isinstance(cmd, str) and key in cache
CacheHit(c) == c.cmd.type = "str" /\ CacheKey(c) \in DOMAIN cache[c.fn]

\* an allow-list test that lets every string command through
InCachedCommandsAnyString(cmd) == cmd.type = "str"

\* cmd in CACHED_COMMANDS (a list never equals a string)
InCachedCommands(cmd) == cmd.type = "str" /\ cmd.val \in CACHED_COMMANDS

\* the call is over: its frame is gone, its outcome is with the caller
Complete(o) ==
    /\ outcome' = o
    /\ loc' = NoLoc
    /\ pipe' = <<>>
    /\ elapsed' = 0
    /\ pc' = "done"

\* a wrapper that hands the result on and forgets to store it
ReturnNotStored(res) ==
    /\ Complete([kind |-> "return", val |-> res])
    /\ cache' = cache

\* the decorated function returned res: the wrapper stores it and hands it on
Return(res) ==
    /\ Complete([kind |-> "return", val |-> res])
    /\ cache' = IF call.fn \in Funcs /\ InCachedCommands(call.cmd)
                THEN [cache EXCEPT ![call.fn] = Put(@, CacheKey(call), res)]
                ELSE cache

\* the function raised: nothing is stored
Raise(kind, what) ==
    /\ Complete([kind |-> kind, what |-> what])
    /\ cache' = cache

\* a failed spawn that is swallowed and reported as a result
SpawnFailedSwallowed(kind) == Return([output |-> <<>>, exit_code |-> 127])

\* Popen raised OSError: run_cmd and run_cmd_qa raise EasyBuildError from it
\* (lines 773-775, 1054-1056), run_shell_cmd lets it pass (line 445)
SpawnFailed(kind) == Raise(kind, "spawn")

\* raise_run_shell_cmd_error: the error carries the fields of the result
raise_run_shell_cmd_error(res) ==
    /\ Complete([kind |-> "RunShellCmdError", what |-> "exit_code", val |-> res])
    /\ cache' = cache

\* what the next call remembers of the call that completed just before it:
\* kept for a call of an allow-listed command that returned
Summary ==
    IF /\ pc = "done"
       /\ call.fn \in Funcs
       /\ InCachedCommands(call.cmd)
       /\ outcome.kind = "return"
    THEN [fn |-> call.fn, cmd |-> call.cmd, input |-> CacheKey(call)[2],
          outcome |-> outcome]
    ELSE IF call.fn \in {"clear_cache", "update_cache"}
    THEN call
    ELSE NoPrev

\* Python passes lists by reference: the command and the question patterns
\* of a call are the objects the caller holds
Passed(c) ==
    [caller EXCEPT !.cmd = IF "cmd" \in DOMAIN c THEN c.cmd ELSE NoCmd,
                   !.qa_patterns = IF c.fn = "run_shell_cmd" THEN c.qa_patterns
                                   ELSE <<>>]

\* a new call starts: the caller is between calls
StartCall(c) ==
    /\ pc \in {"idle", "done"}
    /\ ncalls < MaxCalls
    /\ ncalls' = ncalls + 1
    /\ prev' = Summary
    /\ call' = c
    /\ caller' = Passed(c)
    /\ proc' = NoProc
    /\ UNCHANGED <<errors_found_in_log, strictness, extended_dry_run>>

\* a call of a function that is not decorated
direct_call(c, entry) ==
    /\ StartCall(c)
    /\ loc' = NoLoc
    /\ pipe' = <<>>
    /\ elapsed' = 0
    /\ cache' = cache
    /\ outcome' = NoOutcome
    /\ events' = <<>>
    /\ pc' = entry

\* cache_aware_func: a call of a decorated function
cache_aware_func(c, entry) ==
    /\ StartCall(c)
    /\ loc' = NoLoc
    /\ pipe' = <<>>
    /\ elapsed' = 0
    /\ cache' = cache
    /\ IF CacheHit(c)
       THEN /\ outcome' = [kind |-> "return", val |-> cache[c.fn][CacheKey(c)]]
            /\ events' = <<"cache_hit">>
            /\ pc' = "done"
       ELSE /\ outcome' = NoOutcome
            /\ events' = <<>>
            /\ pc' = entry

\* a function is between two calls: the caller uses its cache methods
CacheMethod(c) ==
    /\ pc \in {"idle", "done"}
    /\ pc' = "idle"
    /\ outcome' = NoOutcome
    /\ events' = <<>>
    /\ call' = c
    /\ caller' = caller
    /\ loc' = NoLoc

\* a clear_cache that leaves the dict as it is
ClearCacheKeeps(f) ==
    /\ CacheMethod([fn |-> "clear_cache", of |-> f])
    /\ cache' = cache
    /\ UNCHANGED <<errors_found_in_log, strictness, extended_dry_run, proc,
                   pipe, elapsed, prev, ncalls>>

\* dict.update: the entries are added, and replace those with the same key
Update(d, entries) ==
    [x \in (DOMAIN d) \cup (DOMAIN entries) |->
        IF x \in DOMAIN entries THEN entries[x] ELSE d[x]]

\* line 185: run_shell_cmd.update_cache(entries) / run_cmd.update_cache(entries)
UpdateCache(f, entries) ==
    /\ CacheMethod([fn |-> "update_cache", of |-> f, entries |-> entries])
    /\ cache' = [cache EXCEPT ![f] = Update(@, entries)]
    /\ UNCHANGED <<errors_found_in_log, strictness, extended_dry_run, proc,
                   pipe, elapsed, prev, ncalls>>

\* line 184: run_shell_cmd.clear_cache() / run_cmd.clear_cache()
ClearCache(f) ==
    /\ CacheMethod([fn |-> "clear_cache", of |-> f])
    /\ cache' = [cache EXCEPT ![f] = EmptyDict]
    /\ UNCHANGED <<errors_found_in_log, strictness, extended_dry_run, proc,
                   pipe, elapsed, prev, ncalls>>

\* ------------------------------------------------------------ the child process
\* the child of an asynchronous run_cmd goes on while its caller does other
\* things, between the calls that look after it
Detached ==
    \/ call.fn = "check_async_cmd"
    \/ call.fn = "run_cmd" /\ call.asynchronous

\* the child writes a chunk of output to its stdout pipe; call.child says what
\* the command of this call can write, and how much
ProcWrite ==
    /\ pc \notin {"idle", "done"} \/ Detached
    /\ proc.st = "running"
    /\ proc.written < call.child.max
    /\ \E chunk \in call.child.vocab:
          /\ pipe' = Append(pipe, chunk)
          /\ proc' = [proc EXCEPT !.written = @ + 1, !.out = Append(@, chunk)]
    /\ UNCHANGED <<errors_found_in_log, strictness, extended_dry_run, cache,
                   pc, call, caller, loc, elapsed,
                   events, outcome, prev, ncalls>>

\* exit statuses a child can end with: its own, or that of the signal that
\* ended it
ExitStatuses(p) ==
    IF p.sigkill THEN {-9} ELSE IF p.sigterm THEN {-15} ELSE {0, 1}

\* a child that waits for input goes on only once it has asked all it asks and
\* has been sent something, or when a signal ends it
Blocked(p, c) ==
    /\ "child" \in DOMAIN c
    /\ c.child.waits
    /\ ~p.sigterm /\ ~p.sigkill
    /\ p.written < c.child.max \/ p.input = <<>>

\* the child ends (on its own or because of a signal it was sent)
ProcExit ==
    /\ proc.st = "running"
    /\ ~Blocked(proc, call)
    /\ \E ec \in ExitStatuses(proc):
          proc' = [proc EXCEPT !.st = "exited", !.ec = ec]
    /\ UNCHANGED <<errors_found_in_log, strictness, extended_dry_run, cache,
                   pc, call, caller, loc, pipe, elapsed,
                   events,
                   outcome, prev, ncalls>>

\* pcs at which the caller waits for, or polls, the child
Waiting ==
    /\ call.fn = "run_shell_cmd"
    /\ pc \in {"rsc_stdin", "rsc_loop", "rsc_read", "rsc_sleep",
             "rsc_communicate"}

\* time passes; the clock is read only by a call with a timeout, and is not
\* tracked for any other
Tick ==
    /\ Waiting
    /\ call.timeout # <<>>
    /\ elapsed < MaxTime
    /\ elapsed' = elapsed + 1
    /\ UNCHANGED <<errors_found_in_log, strictness, extended_dry_run, cache,
                   pc, call, caller, loc, proc, pipe, events,
                   outcome, prev, ncalls>>

\* Popen.poll(): reaps the child if it has ended
Poll(p) == IF p.st = "exited" THEN [p EXCEPT !.returncode_set = TRUE] ELSE p

\* Popen.send_signal(sig): polls first and signals only a child not yet reaped
SendSignal(p, sig) ==
    IF Poll(p).returncode_set THEN Poll(p)
    ELSE IF sig = "SIGTERM" THEN [p EXCEPT !.sigterm = TRUE]
    ELSE [p EXCEPT !.sigkill = TRUE]

\* the event a send_signal call leaves: none when nothing was sent
SignalEvent(p, sig) == IF Poll(p).returncode_set THEN <<>> ELSE <<sig>>

\* ------------------------------------------------------- questions and answers
\* A pattern stands for a regular expression: the set of texts (tokens) it
\* matches.  Every pattern is used with [\s\n]*$ appended and regex.search, so
\* it matches a buffer whose last token, trailing whitespace aside, is one of
\* its texts.
Whitespace == {"\n", SP}

RECURSIVE RStripWS(_)
RStripWS(buf) ==
    IF buf # <<>> /\ buf[Len(buf)] \in Whitespace
    THEN RStripWS(SubSeq(buf, 1, Len(buf) - 1)) ELSE buf

MatchesEnd(pat, buf) ==
    LET b == RStripWS(buf) IN b # <<>> /\ b[Len(b)] \in pat

\* a loop over the question patterns without the break: the last pattern that
\* matches wins
LastQuestion(qa, buf, i) ==
    LET S == {k \in i..Len(qa) : MatchesEnd(qa[k].pat, buf)}
    IN IF S = {} THEN 0 ELSE CHOOSE k \in S : \A m \in S : m <= k

\* the for loop over the question patterns, from entry i on: the index of the
\* first pattern that matches, 0 when the loop ends without a break
RECURSIVE FirstQuestion(_, _, _)
FirstQuestion(qa, buf, i) ==
    IF i > Len(qa) THEN 0
    ELSE IF MatchesEnd(qa[i].pat, buf) THEN i
    ELSE FirstQuestion(qa, buf, i + 1)

\* a list of answers that is never cycled
RotateNot(answers) == answers

\* answers.pop(0) followed by answers.append(answer)
Rotate(answers) == Tail(answers) \o <<Head(answers)>>

\* lines 221-229: the current answer of an answer source
CurrentAnswer(answers) ==
    IF answers.type = "list" THEN Head(answers.val) ELSE answers.val

\* lines 223-225: a list is cycled, a string is left alone
Cycled(answers) ==
    IF answers.type = "list" THEN [answers EXCEPT !.val = Rotate(@)] ELSE answers

\* an _answer_question that finds the question and writes no answer
answer_question_unanswered(stdout, qa, waits) ==
    [match_found |-> FirstQuestion(qa, stdout, 1) > 0
                     \/ \E w \in 1..Len(waits): MatchesEnd(waits[w], stdout),
     answered |-> 0, reply |-> <<>>, qa |-> qa,
     waits_tried |-> FirstQuestion(qa, stdout, 1) = 0]

\* lines 207-261: what _answer_question finds and does
\*   answered: index of the question replied to (0: none)
\*   reply: what is written to the stdin of the process
\*   waits_tried: whether the wait patterns were considered
answer_question(stdout, qa, waits) ==
    LET i == FirstQuestion(qa, stdout, 1) IN
    IF i > 0
    THEN [match_found |-> TRUE, answered |-> i,
          reply |-> CurrentAnswer(qa[i].answers) \o <<"\n">>,
          qa |-> [qa EXCEPT ![i].answers = Cycled(@)],
          waits_tried |-> FALSE]
    ELSE [match_found |-> \E w \in 1..Len(waits): MatchesEnd(waits[w], stdout),
          answered |-> 0, reply |-> <<>>, qa |-> qa, waits_tried |-> TRUE]

\* -------------------------------------------------------------- run_shell_cmd
\* timeout: <<>> is None, <<n>> is n ticks
TimeoutSet(c) == c.timeout # <<>>

\* lines 283-288: a read_pipe that ran into its timeout has left its thread
\* behind, blocked in pipe.read(size)
Leaked(l) == "leaked" \in DOMAIN l /\ l.leaked

\* line 475: time.time() - start > timeout.  A read that ran into its timeout
\* has waited for all the time that was left (line 490), and the sleep of
\* line 521 has followed it
TimedOut(c) == TimeoutSet(c) /\ (elapsed > c.timeout[1] \/ Leaked(loc))

\* not in_dry_run and build_option('extended_dry_run')
DryRunShortCircuit(c) == ~c.in_dry_run /\ extended_dry_run

\* the path of an output file in the temporary directory of this call
TmpPath(name) == <<"run-shell-cmd-output", ncalls, name>>
NoPath == <<>>

\* bool(qa_patterns)
Interactive(c) == c.qa_patterns # <<>>

\* what the last question-and-answer cycle of a call saw and did
NoCycle == [n |-> 0]

\* replies recorded so far for the current call
Replies == Cardinality({k \in DOMAIN events : events[k] = "answer"})

\* lines 356-407: defaults, temporary output files, dry-run short-circuit
RscPrepare ==
    /\ pc = "rsc_enter"
    /\ LET work_dir == IF call.work_dir = None THEN "cwd" ELSE call.work_dir
           cmd_str == to_cmd_str(call.cmd)
           out_fp == IF call.output_file THEN TmpPath("out.txt") ELSE NoPath
           err_fp == IF call.output_file /\ call.split_stderr
                     THEN TmpPath("err.txt") ELSE NoPath
           made == IF call.output_file THEN <<"makedirs", "mkdtemp">> ELSE <<>>
       IN /\ events' = events \o made
          /\ IF DryRunShortCircuit(call)
             THEN Return(RunShellCmdResult(cmd_str, 0, <<>>, NoStderr, work_dir,
                                           out_fp, err_fp))
             ELSE /\ loc' = [cmd |-> call.cmd, cmd_str |-> cmd_str,
                             work_dir |-> work_dir, out_fp |-> out_fp,
                             err_fp |-> err_fp, stdout |-> <<>>,
                             qa |-> call.qa_patterns, time_no_match |-> 0,
                             cycle |-> NoCycle, leaked |-> FALSE]
                  /\ pc' = "rsc_spawn"
                  /\ UNCHANGED <<cache, outcome, pipe, elapsed>>
    /\ UNCHANGED <<errors_found_in_log, strictness, extended_dry_run, call, caller,
                   proc, prev, ncalls>>

\* what the pre-hook loaded for a call may return: nothing, or a replacement
\* command, a string or a list
NoHookRes == [type |-> "none", val |-> <<>>]
PreHookResults ==
    {NoHookRes, StrCmd(<<"hooked">>), ListCmd(<<"hooked", "-j">>)}

\* line 433: if hook_res
HookReplaces(hook_res) == hook_res.type # "none" /\ hook_res.val # <<>>

\* a child just spawned, to run cmd
Spawned(cmd) == [NoProc EXCEPT !.st = "running", !.cmd = cmd]

\* lines 409-470: trace, pre-hook, Popen, stdin
RscSpawn ==
    /\ pc = "rsc_spawn"
    /\ \E spawn_ok \in BOOLEAN:
          LET hook_res == IF call.with_hooks THEN call.hook_res ELSE NoHookRes
              cmd == IF HookReplaces(hook_res) THEN hook_res ELSE loc.cmd
              hooked == IF call.with_hooks THEN <<"pre_hook">> ELSE <<>>
          IN IF spawn_ok
             THEN /\ loc' = [loc EXCEPT !.cmd = cmd, !.cmd_str = to_cmd_str(cmd)]
                  /\ proc' = Spawned(cmd)
                  /\ events' = events \o hooked \o <<"spawn">>
                  /\ pc' = IF ~(call.stream_output \/ Interactive(call))
                           THEN "rsc_communicate"
                           ELSE IF Truthy(call.stdin) THEN "rsc_stdin"
                           ELSE "rsc_loop"
                  /\ UNCHANGED <<cache, outcome, pipe, elapsed>>
             ELSE /\ proc' = proc
                  /\ events' = events \o hooked \o <<"spawn_failed">>
                  /\ SpawnFailed("OSError")
    /\ UNCHANGED <<errors_found_in_log, strictness, extended_dry_run, call, caller,
                   prev, ncalls>>

\* an input larger than what the pipe to the child and the buffer of
\* proc.stdin hold together: writing it needs the child to read
ExceedsPipe(stdin) == stdin = "big"

\* the child starts to read the input that a blocked write is waiting to pass
ProcReadStdin ==
    /\ pc = "rsc_stdin"
    /\ proc.st = "running"
    /\ ExceedsPipe(call.stdin)
    /\ ~proc.reading
    /\ proc' = [proc EXCEPT !.reading = TRUE]
    /\ UNCHANGED <<errors_found_in_log, strictness, extended_dry_run, cache,
                   pc, call, caller, loc, pipe, elapsed, events, outcome, prev, ncalls>>

\* lines 464-465: proc.stdin.write(stdin) in the loop branch.  An input that
\* fits is buffered at once.  One that does not fit is written as the child
\* reads it: the write waits on a blocking pipe (stream_output), raises
\* BlockingIOError on a non-blocking one (qa_patterns), and raises
\* BrokenPipeError when the child has ended without reading
RscWriteStdin ==
    /\ pc = "rsc_stdin"
    /\ IF ~ExceedsPipe(call.stdin) \/ proc.reading
       THEN /\ pc' = "rsc_loop"
            /\ events' = Append(events, "write_stdin")
            /\ UNCHANGED <<cache, outcome, loc, pipe, elapsed>>
       ELSE IF proc.st = "exited"
       THEN /\ events' = events
            /\ Raise("BrokenPipeError", "stdin")
       ELSE /\ Interactive(call)
            /\ events' = events
            /\ Raise("BlockingIOError", "stdin")
    /\ UNCHANGED <<errors_found_in_log, strictness, extended_dry_run, call, caller,
                   proc, prev, ncalls>>

\* a timeout check that raises without terminating the child
RscLoopTopRaiseOnly ==
    /\ pc = "rsc_loop"
    /\ IF TimedOut(call)
       THEN /\ events' = Append(events, "timeout")
            /\ Raise("EasyBuildError", "timeout")
       ELSE /\ pc' = "rsc_read"
            /\ events' = events
            /\ UNCHANGED <<cache, loc, pipe, elapsed, outcome>>
    /\ UNCHANGED <<errors_found_in_log, strictness, extended_dry_run, call, caller,
                   proc, prev, ncalls>>

\* lines 474-479: the timeout check at the top of the poll loop
RscLoopTop ==
    /\ pc = "rsc_loop"
    /\ IF TimedOut(call)
       THEN /\ pc' = "term_start"
            /\ events' = Append(events, "timeout")
       ELSE /\ pc' = "rsc_read"
            /\ events' = events
    /\ UNCHANGED <<errors_found_in_log, strictness, extended_dry_run, cache,
                   call, caller, loc, proc, pipe, elapsed,
                   outcome, prev, ncalls>>

\* lines 484-506: one read_pipe call of the inner loop
RscRead ==
    /\ pc = "rsc_read"
    /\ \/ \* data is there: it is appended and the inner loop goes on
          /\ pipe # <<>>
          /\ loc' = [loc EXCEPT !.stdout = Append(@, Head(pipe))]
          /\ pipe' = Tail(pipe)
          /\ events' = Append(events, "read")
          /\ pc' = pc
       \/ \* end of file (b''), or nothing there on a non-blocking pipe (None)
          /\ pipe = <<>>
          /\ proc.st = "exited" \/ Interactive(call)
          /\ pc' = IF Interactive(call) THEN "rsc_qa" ELSE "rsc_sleep"
          /\ UNCHANGED <<loc, pipe, events>>
       \/ \* nothing to read within the time left: TimeoutError, break; the
          \* thread of read_pipe stays in its read
          /\ pipe = <<>>
          /\ proc.st = "running"
          /\ ~Interactive(call)
          /\ TimeoutSet(call)
          /\ elapsed >= call.timeout[1]
          /\ loc' = [loc EXCEPT !.leaked = TRUE]
          /\ pc' = "rsc_sleep"
          /\ UNCHANGED <<pipe, events>>
    /\ UNCHANGED <<errors_found_in_log, strictness, extended_dry_run, cache,
                   call, caller, proc, elapsed, outcome, prev,
                   ncalls>>

\* line 469: check_interval_secs = 0.1.  time_no_match is a double, the sum of
\* n additions of 0.1 since it was last zero: the model keeps n.  That sum
\* against the double nearest to the decimal n/10 (IEEE 754, n up to 12):
\* above it for n = 3 (0.30000000000000004), below it for n = 8..11
\* (0.7999999999999999 .. 1.0999999999999999), equal to it otherwise
SumAgainstDecimal(n) ==
    IF n = 3 THEN 1 ELSE IF n \in 8..11 THEN -1 ELSE 0

\* line 514: time_no_match > qa_timeout, for a time_no_match of n additions
\* and a qa_timeout of t tenths of a second
ExceedsTimeout(n, t) == n > t \/ (n = t /\ SumAgainstDecimal(n) > 0)

\* lines 508-519: answer a question, or count the time without a match.
\* qa_patterns is the list of the caller: the answers.pop(0) and
\* answers.append(answer) of lines 224-225 are done on its answer lists
RscQA ==
    /\ pc = "rsc_qa"
    /\ LET r == answer_question(loc.stdout, loc.qa, call.qa_wait_patterns)
           cyc == [n |-> 1, buf |-> loc.stdout,
                   answered |-> r.answered, reply |-> r.reply,
                   waits_tried |-> r.waits_tried, match_found |-> r.match_found]
       IN IF r.match_found
          THEN /\ loc' = [loc EXCEPT !.qa = r.qa, !.time_no_match = 0,
                                     !.cycle = cyc]
               /\ caller' = [caller EXCEPT !.qa_patterns = r.qa]
               /\ proc' = IF Replies < MaxReplies
                          THEN [proc EXCEPT !.input = @ \o r.reply]
                          ELSE proc
               /\ events' = IF r.answered > 0 /\ Replies < MaxReplies
                            THEN Append(events, "answer")
                            ELSE events
               /\ pc' = "rsc_sleep"
               /\ UNCHANGED <<cache, outcome, pipe, elapsed>>
          ELSE IF ExceedsTimeout(loc.time_no_match + 1, call.qa_timeout)
          THEN /\ events' = Append(events, "stall")
               /\ proc' = proc
               /\ caller' = caller
               /\ Complete([kind |-> "EasyBuildError", what |-> "stall",
                            time_no_match |-> loc.time_no_match + 1])
               /\ cache' = cache
          ELSE /\ loc' = [loc EXCEPT !.time_no_match = @ + 1, !.cycle = cyc]
               /\ pc' = "rsc_sleep"
               /\ UNCHANGED <<cache, outcome, pipe, elapsed, proc, events,
                              caller>>
    /\ UNCHANGED <<errors_found_in_log, strictness, extended_dry_run, call,
                   prev, ncalls>>

\* lines 521-523: sleep, then poll for the exit code
RscSleepPoll ==
    /\ pc = "rsc_sleep"
    /\ proc' = Poll(proc)
    /\ pc' = IF Poll(proc).returncode_set THEN "rsc_drain" ELSE "rsc_loop"
    /\ UNCHANGED <<errors_found_in_log, strictness, extended_dry_run, cache,
                   call, caller, loc, pipe, elapsed, events,
                   outcome, prev, ncalls>>

\* lines 525-528: collect the last bit of output once the process has exited.
\* A thread that read_pipe left behind holds the lock of proc.stdout and is
\* served first: it takes the first chunk (up to 128 bytes), which is stored
\* in the list of its read_pipe call and goes nowhere
RscDrain ==
    /\ pc = "rsc_drain"
    /\ loc' = [loc EXCEPT !.stdout = @ \o (IF loc.leaked /\ pipe # <<>>
                                           THEN Tail(pipe) ELSE pipe)]
    /\ pipe' = <<>>
    /\ events' = Append(events, "drain")
    /\ pc' = "rsc_finish"
    /\ UNCHANGED <<errors_found_in_log, strictness, extended_dry_run, cache,
                   call, caller, proc, elapsed, outcome, prev,
                   ncalls>>

\* lines 530-536: proc.communicate(input=stdin, timeout=timeout)
RscCommunicate ==
    /\ pc = "rsc_communicate"
    /\ \/ \* the child ended: all its output is read and it is reaped
          /\ proc.st = "exited"
          /\ loc' = [loc EXCEPT !.stdout = @ \o pipe]
          /\ pipe' = <<>>
          /\ proc' = Poll(proc)
          /\ events' = Append(events, "drain")
          /\ pc' = "rsc_finish"
       \/ \* TimeoutExpired
          /\ proc.st = "running"
          /\ TimeoutSet(call)
          /\ elapsed >= call.timeout[1]
          /\ events' = Append(events, "timeout")
          /\ pc' = "term_start"
          /\ UNCHANGED <<loc, pipe, proc>>
    /\ UNCHANGED <<errors_found_in_log, strictness, extended_dry_run, cache,
                   call, caller, elapsed, outcome, prev, ncalls>>

\* ---------------------------------------------------------- terminate_process
\* line 299: proc.terminate()
TermStart ==
    /\ pc = "term_start"
    /\ proc' = SendSignal(proc, "SIGTERM")
    /\ events' = events \o SignalEvent(proc, "SIGTERM")
    /\ pc' = "term_wait1"
    /\ UNCHANGED <<errors_found_in_log, strictness, extended_dry_run, cache,
                   call, caller, loc, pipe, elapsed, outcome,
                   prev, ncalls>>

\* lines 300-303: proc.wait(timeout); TimeoutExpired is logged and swallowed
TermWait1 ==
    /\ pc = "term_wait1"
    /\ proc' = Poll(proc)
    /\ events' = IF proc.st = "exited" THEN events
                 ELSE Append(events, "wait_expired")
    /\ pc' = "term_kill"
    /\ UNCHANGED <<errors_found_in_log, strictness, extended_dry_run, cache,
                   call, caller, loc, pipe, elapsed, outcome,
                   prev, ncalls>>

\* line 304: proc.kill()
TermKill ==
    /\ pc = "term_kill"
    /\ proc' = SendSignal(proc, "SIGKILL")
    /\ events' = events \o SignalEvent(proc, "SIGKILL")
    /\ pc' = "term_wait2"
    /\ UNCHANGED <<errors_found_in_log, strictness, extended_dry_run, cache,
                   call, caller, loc, pipe, elapsed, outcome,
                   prev, ncalls>>

\* a second wait whose TimeoutExpired is swallowed like that of the first
TermWait2NoGiveUp ==
    /\ pc = "term_wait2"
    /\ proc' = Poll(proc)
    /\ events' = Append(events, "terminated")
    /\ Raise("EasyBuildError", "timeout")
    /\ UNCHANGED <<errors_found_in_log, strictness, extended_dry_run, call, caller,
                   prev, ncalls>>

\* lines 305-308: the second wait; TimeoutExpired is fatal.  When the wait
\* succeeds terminate_process returns and its caller (line 479 or 536) raises
\* the timeout error.
TermWait2 ==
    /\ pc = "term_wait2"
    /\ proc' = Poll(proc)
    /\ IF proc.st = "exited"
       THEN /\ events' = Append(events, "terminated")
            /\ Raise("EasyBuildError", "timeout")
       ELSE /\ events' = Append(events, "wait_expired")
            /\ Raise("EasyBuildError", "not_terminated")
    /\ UNCHANGED <<errors_found_in_log, strictness, extended_dry_run, call, caller,
                   prev, ncalls>>

\* ------------------------------------------------- run_shell_cmd, the result
\* a check of the exit code that forgets fail_on_error
ShouldRaiseAnyNonZero(res, c) == res.exit_code # 0

\* lines 567-572: a non-zero exit code is an error when fail_on_error is set
ShouldRaise(res, c) == res.exit_code # 0 /\ c.fail_on_error

\* lines 538-588: decode, dump the output, build the result, raise or return
RscFinish ==
    /\ pc = "rsc_finish"
    /\ \E io_ok \in (IF call.output_file THEN BOOLEAN ELSE {TRUE}):
          LET output == Decode(loc.stdout)
              stderr == IF call.split_stderr THEN StderrText(<<>>)
                        ELSE NoStderr
              res == RunShellCmdResult(loc.cmd_str, proc.ec, output, stderr,
                                       loc.work_dir, loc.out_fp, loc.err_fp)
              dumped == IF call.output_file THEN <<"write_out">> ELSE <<>>
              hooked == IF call.with_hooks THEN <<"post_hook">> ELSE <<>>
          IN IF ~io_ok
             THEN /\ events' = Append(events, "write_failed")
                  /\ Raise("EasyBuildError", "dump_failed")
             ELSE IF ShouldRaise(res, call)
             THEN /\ events' = events \o dumped \o <<"result">>
                  /\ raise_run_shell_cmd_error(res)
             ELSE /\ events' = events \o dumped \o <<"result">> \o hooked
                  /\ Return(res)
    /\ UNCHANGED <<errors_found_in_log, strictness, extended_dry_run, call, caller,
                   proc, prev, ncalls>>

\* ----------------------------------------------------------- parse_cmd_output
\* re.I: the words of the output that differ from their lower case
Lower(tok) == IF tok = "Error" THEN "error" ELSE tok

\* the default error pattern of parse_log_for_error, on a token of output
MatchesErrorPattern(tok) ==
    Lower(tok) \in {"error", "failed", "segmentation fault"}

\* txt.split('\n'): the lines of a text, each a sequence of tokens; a text
\* without a newline is one line, and a text that ends with a newline has an
\* empty last line
RECURSIVE SplitLines(_)
SplitLines(txt) ==
    IF \A k \in DOMAIN txt: txt[k] # "\n"
    THEN <<txt>>
    ELSE LET k == CHOOSE i \in DOMAIN txt:
                     txt[i] = "\n" /\ \A j \in 1..(i - 1): txt[j] # "\n"
         IN <<SubSeq(txt, 1, k - 1)>> \o SplitLines(SubSeq(txt, k + 1, Len(txt)))

\* reg.search(line), for the default pattern
SearchDefault(line) == \E k \in DOMAIN line: MatchesErrorPattern(line[k])

\* lines 1237-1269: the lines of the output that match the pattern; each adds
\* one to errors_found_in_log
parse_log_for_error(txt) == SelectSeq(SplitLines(txt), SearchDefault)

\* an exit code check that every strictness level switches on
check_ec_always(strict) == TRUE

\* a pattern match that fails the call under every level that checks
fail_on_error_match_checked(strict, regexp) == strict # IGNORE /\ regexp

\* lines 1186-1196
check_ec(strict) == strict # IGNORE
fail_on_error_match(strict, regexp) == strict = ERROR /\ regexp

\* the two shapes of a return value of run_cmd and run_cmd_qa: True/False
\* (simple), or the tuple (output, exit code)
Simple(ok) == [ok |-> ok]
OutputAndEc(out, ec) == [out |-> out, ec |-> ec]

\* lines 1175-1234: the outcome of parse_cmd_output, as [kind, ...], with the
\* lines that parse_log_for_error matched (res; none when it is not called) and
\* the warnings that were logged
parse_cmd_output(stdouterr, ec, simple, log_all, log_ok, regexp) ==
    LET scans == fail_on_error_match(strictness, regexp) \/ regexp
        res == IF scans THEN parse_log_for_error(stdouterr) ELSE <<>>
        ec_warning == IF ec # 0 /\ (log_all \/ log_ok)
                      THEN <<"warn_exit_code">> ELSE <<>>
        match_warning == IF res # <<>> THEN <<"warn_match">> ELSE <<>>
    IN IF strictness \notin {IGNORE, WARN, ERROR}
       THEN [kind |-> "EasyBuildError", what |-> "invalid_strictness",
             res |-> <<>>, log |-> <<>>]
       ELSE IF ec # 0 /\ (log_all \/ log_ok) /\ check_ec(strictness)
       THEN [kind |-> "EasyBuildError", what |-> "exit_code",
             res |-> <<>>, log |-> <<>>]
       ELSE IF fail_on_error_match(strictness, regexp) /\ res # <<>>
       THEN [kind |-> "EasyBuildError", what |-> "error_match",
             res |-> res, log |-> ec_warning]
       ELSE IF simple
       THEN [kind |-> "return",
             val |-> Simple(IF ec # 0 THEN ~check_ec(strictness) ELSE TRUE),
             res |-> res, log |-> ec_warning \o match_warning]
       ELSE [kind |-> "return", val |-> OutputAndEc(stdouterr, ec),
             res |-> res, log |-> ec_warning \o match_warning]

\* a function ends the way parse_cmd_output ended, after what it logged and
\* counted
Finish(o) ==
    /\ errors_found_in_log' = errors_found_in_log + Len(o.res)
    /\ IF o.kind = "return" THEN Return(o.val) ELSE Raise(o.kind, o.what)

\* -------------------------------------------------------------------- run_cmd
\* lines 740-747 (run_cmd) and 958-965 (run_cmd_qa): os.chdir(path) when a
\* path is given; a chdir that fails is logged and the call goes on where it is
Chdir(path, ok) ==
    [caller EXCEPT !.cwd = IF Truthy(path) /\ ok THEN path ELSE @]

\* whether os.chdir(path) succeeds is asked only when there is a path
ChdirOutcomes(path) == IF Truthy(path) THEN BOOLEAN ELSE {TRUE}

\* lines 893-896 and 1167-1170: os.chdir back to the directory the call
\* started in
ChdirBack(owd) == [caller EXCEPT !.cwd = owd]

\* not force_in_dry_run and build_option('extended_dry_run')
RcDryRunShortCircuit(c) == ~c.force_in_dry_run /\ extended_dry_run

\* lines 679-738: command type, shell default, temporary log, dry-run
RcPrepare ==
    /\ pc = "rc_enter"
    /\ LET logged == IF call.log_output THEN <<"mkstemp", "open_log">> ELSE <<>>
       IN IF call.shell = None /\ call.cmd.type = "list"
          THEN /\ events' = events
               /\ Raise("EasyBuildError", "shell_unset")
          ELSE /\ events' = events \o logged
               /\ IF RcDryRunShortCircuit(call)
                  THEN Return(IF call.simple THEN Simple(TRUE)
                              ELSE OutputAndEc(<<>>, 0))
                  ELSE /\ loc' = [cmd |-> call.cmd, stdout |-> <<>>,
                                  owd |-> caller.cwd]
                       /\ pc' = "rc_spawn"
                       /\ UNCHANGED <<cache, outcome, pipe, elapsed>>
    /\ \E ok \in ChdirOutcomes(call.path):
          caller' = IF pc' = "rc_spawn" THEN Chdir(call.path, ok) ELSE caller
    /\ UNCHANGED <<errors_found_in_log, strictness, extended_dry_run, call,
                   proc, prev, ncalls>>

\* line 783: the tuple (proc, cmd, cwd, start_time, cmd_log) an asynchronous
\* run_cmd returns; the process it holds is proc
Handle(owd) == [handle |-> "proc", cwd |-> owd]

\* shell=False; None stands for the default, which is True for a string
ShellFalse == "False"

\* lines 754-761: a list gets '/usr/bin/env' inserted in front, a string is
\* replaced by '/usr/bin/env %s' % cmd
EnvPrefix(cmd) ==
    IF cmd.type = "list" THEN ListCmd(<<"/usr/bin/env">> \o cmd.val)
    ELSE StrCmd(<<"/usr/bin/env", SP>> \o cmd.val)

\* line 757: cmd.insert acts on the list object the caller passed; the string
\* of line 759 is a new object bound to the local name
InsertedInto(cmd) == IF cmd.type = "list" THEN EnvPrefix(cmd) ELSE cmd

\* lines 740-785: chdir, /usr/bin/env prefix, pre-hook, Popen, stdin, and the
\* return of the handle when asynchronous
RcSpawn ==
    /\ pc = "rc_spawn"
    /\ caller' = IF call.shell = ShellFalse
                 THEN [caller EXCEPT !.cmd = InsertedInto(@)] ELSE caller
    /\ \E spawn_ok \in BOOLEAN:
          LET hook_res == IF call.with_hooks THEN call.hook_res ELSE NoHookRes
              exec == IF call.shell = ShellFalse THEN EnvPrefix(loc.cmd)
                      ELSE loc.cmd
              cmd == IF hook_res.type = "str" THEN hook_res ELSE exec
              hooked == IF call.with_hooks THEN <<"pre_hook">> ELSE <<>>
          IN IF spawn_ok /\ call.asynchronous
             THEN /\ proc' = Spawned(cmd)
                  /\ events' = events \o hooked \o <<"spawn">>
                  /\ Return(Handle(loc.owd))
             ELSE IF spawn_ok
             THEN /\ loc' = [loc EXCEPT !.cmd = cmd]
                  /\ proc' = Spawned(cmd)
                  /\ events' = events \o hooked \o <<"spawn">>
                  /\ pc' = "rc_complete"
                  /\ UNCHANGED <<cache, outcome, pipe, elapsed>>
             ELSE /\ proc' = proc
                  /\ events' = events \o hooked \o <<"spawn_failed">>
                  /\ SpawnFailed("EasyBuildError")
    /\ UNCHANGED <<errors_found_in_log, strictness, extended_dry_run, call,
                   prev, ncalls>>

\* lines 856-868 of complete_cmd: poll, and read while the child runs; the
\* read blocks until there is output or the child has closed its end
RcPollRead ==
    /\ pc = "rc_complete"
    /\ \/ /\ proc.st = "running"
          /\ pipe # <<>>
          /\ loc' = [loc EXCEPT !.stdout = Append(@, Head(pipe))]
          /\ pipe' = Tail(pipe)
          /\ events' = Append(events, "read")
          /\ UNCHANGED <<proc, pc>>
       \/ /\ proc.st = "exited"
          /\ proc' = Poll(proc)
          /\ pc' = "rc_finish"
          /\ UNCHANGED <<loc, pipe, events>>
    /\ UNCHANGED <<errors_found_in_log, strictness, extended_dry_run, cache,
                   call, caller, elapsed, outcome, prev, ncalls>>

\* lines 869-898 of complete_cmd: drain, close the log, post-hook, chdir back,
\* parse_cmd_output
RcFinish ==
    /\ pc = "rc_finish"
    /\ LET stdouterr == Decode(loc.stdout \o pipe)
           closed == IF call.log_output THEN <<"close_log">> ELSE <<>>
           hooked == IF call.with_hooks THEN <<"post_hook">> ELSE <<>>
           o == parse_cmd_output(stdouterr, proc.ec, call.simple,
                                 call.log_all, call.log_ok, call.regexp)
       IN /\ events' = events \o <<"drain">> \o closed \o hooked \o o.log
          /\ Finish(o)
    /\ caller' = ChdirBack(loc.owd)
    /\ UNCHANGED <<strictness, extended_dry_run, call, proc, prev, ncalls>>

\* ----------------------------------------------------------------- run_cmd_qa
\* lines 984-985, 1017-1018: a newline is added to an answer that lacks one
WithNewline(a) == IF a # <<>> /\ a[Len(a)] = "\n" THEN a ELSE a \o <<"\n">>

\* lines 992-1002: a string becomes a one-element list, a list is copied
check_answers_list(answers) ==
    IF answers.type = "str" THEN <<answers.val>> ELSE answers.val

\* lines 980-990, 1013-1019: an entry of new_qa or new_std_qa
ProcessedQA(pat, answers) ==
    [pat |-> pat,
     answers |-> [type |-> "list",
                  val |-> [k \in 1..Len(check_answers_list(answers)) |->
                             WithNewline(check_answers_list(answers)[k])]]]

\* lines 1004-1010: qa maps a literal question to its answers; the regular
\* expression made of a question matches that question
new_qa(qa) == [k \in 1..Len(qa) |-> ProcessedQA({qa[k].q}, qa[k].answers)]

\* lines 1012-1020: std_qa maps a regular expression to its answers
new_std_qa(std_qa) ==
    [k \in 1..Len(std_qa) |-> ProcessedQA(std_qa[k].pat, std_qa[k].answers)]

\* lines 917-1027: command type, temporary log, dry-run, the patterns
RqPrepare ==
    /\ pc = "rq_enter"
    /\ LET logged == IF call.log_all THEN <<"mkstemp", "open_log">> ELSE <<>>
           closed == IF call.log_all THEN <<"close_log">> ELSE <<>>
       IN IF call.cmd.type # "str" /\ Len(call.cmd.val) > 1
          THEN /\ events' = events
               /\ Raise("EasyBuildError", "not_a_string")
          ELSE IF extended_dry_run
          THEN /\ events' = events \o logged \o closed
               /\ Return(IF call.simple THEN Simple(TRUE)
                              ELSE OutputAndEc(<<>>, 0))
          ELSE /\ events' = events \o logged
               /\ loc' = [cmd |-> call.cmd, stdout |-> <<>>,
                          qa |-> new_qa(call.qa),
                          std_qa |-> new_std_qa(call.std_qa),
                          old_len_out |-> -1, hit_count |-> 0,
                          cycle |-> NoCycle, owd |-> caller.cwd]
               /\ pc' = "rq_spawn"
               /\ UNCHANGED <<cache, outcome, pipe, elapsed>>
    /\ \E ok \in ChdirOutcomes(call.path):
          caller' = IF pc' = "rq_spawn" THEN Chdir(call.path, ok) ELSE caller
    /\ UNCHANGED <<errors_found_in_log, strictness, extended_dry_run, call,
                   proc, prev, ncalls>>

\* lines 1032-1071: pre-hook, Popen (get_proc), first poll
RqSpawn ==
    /\ pc = "rq_spawn"
    /\ \E spawn_ok \in BOOLEAN:
          LET hook_res == call.hook_res
              cmd == IF hook_res.type = "str" THEN hook_res ELSE loc.cmd
              closed == IF call.log_all THEN <<"close_log">> ELSE <<>>
          IN IF spawn_ok
             THEN /\ loc' = [loc EXCEPT !.cmd = cmd]
                  /\ proc' = Spawned(cmd)
                  /\ events' = events \o <<"pre_hook", "spawn">>
                  /\ pc' = "rq_loop"
                  /\ UNCHANGED <<cache, outcome, pipe, elapsed>>
             ELSE /\ proc' = proc
                  /\ events' = events \o <<"pre_hook", "spawn_failed">> \o closed
                  /\ SpawnFailed("EasyBuildError")
    /\ UNCHANGED <<errors_found_in_log, strictness, extended_dry_run, call, caller,
                   prev, ncalls>>

\* lines 1135-1136: os.killpg and os.kill with SIGKILL, on a child still there
KillChild(p) == IF p.st = "running" THEN [p EXCEPT !.sigkill = TRUE] ELSE p

\* lines 1073-1141: one cycle of the loop: read what is there, look for a
\* question, then a standard question, then count the cycle as a miss unless
\* the output grew or a no-question pattern matches; give up after maxhits
RqCycle ==
    /\ pc = "rq_loop"
    /\ LET out == Decode(pipe)
           buf == loc.stdout \o out
           i == IF out # <<>> THEN FirstQuestion(loc.qa, buf, 1) ELSE 0
           j == IF i = 0 /\ out # <<>>
                THEN FirstQuestion(loc.std_qa, buf, 1) ELSE 0
           hit == i > 0 \/ j > 0
           grew == Len(buf) > loc.old_len_out
           noqa == \E r \in 1..Len(call.no_qa): MatchesEnd(call.no_qa[r], buf)
           hit_count == IF hit THEN 0
                        ELSE IF grew \/ noqa THEN loc.hit_count
                        ELSE loc.hit_count + 1
           reply == IF i > 0 THEN CurrentAnswer(loc.qa[i].answers)
                    ELSE IF j > 0 THEN CurrentAnswer(loc.std_qa[j].answers)
                    ELSE <<>>
           cyc == [n |-> 1, buf |-> buf, out |-> out,
                   answered |-> i, std_answered |-> j, reply |-> reply,
                   waits_tried |-> ~hit /\ ~grew, grew |-> grew,
                   noqa |-> noqa, hits_before |-> loc.hit_count]
           closed == IF call.log_all THEN <<"close_log">> ELSE <<>>
       IN /\ pipe' = <<>>
          /\ IF hit_count > call.maxhits
             THEN /\ proc' = KillChild(proc)
                  /\ events' = events \o <<"stall", "SIGKILL">> \o closed
                  /\ Complete([kind |-> "EasyBuildError", what |-> "stall"])
                  /\ cache' = cache
             ELSE /\ loc' = [loc EXCEPT
                               !.stdout = buf,
                               !.qa = IF i > 0
                                      THEN [@ EXCEPT ![i].answers = Cycled(@)]
                                      ELSE @,
                               !.std_qa = IF j > 0
                                          THEN [@ EXCEPT ![j].answers = Cycled(@)]
                                          ELSE @,
                               !.old_len_out = IF ~hit /\ grew THEN Len(buf)
                                               ELSE @,
                               !.hit_count = hit_count,
                               !.cycle = cyc]
                  /\ proc' = [proc EXCEPT !.input = @ \o reply]
                  /\ events' = IF hit THEN Append(events, "answer") ELSE events
                  /\ pc' = "rq_sleep"
                  /\ UNCHANGED <<cache, outcome, elapsed>>
    /\ UNCHANGED <<errors_found_in_log, strictness, extended_dry_run, call, caller,
                   prev, ncalls>>

\* lines 1143-1145: sleep, then poll
RqSleepPoll ==
    /\ pc = "rq_sleep"
    /\ proc' = Poll(proc)
    /\ pc' = IF Poll(proc).returncode_set THEN "rq_finish" ELSE "rq_loop"
    /\ UNCHANGED <<errors_found_in_log, strictness, extended_dry_run, cache,
                   call, caller, loc, pipe, elapsed, events,
                   outcome, prev, ncalls>>

\* lines 1147-1172: the remaining output, the handles and the log are closed,
\* post-hook, chdir back, parse_cmd_output
RqFinish ==
    /\ pc = "rq_finish"
    /\ LET stdout_err == loc.stdout \o Decode(pipe)
           closed == IF call.log_all THEN <<"close_log">> ELSE <<>>
           o == parse_cmd_output(stdout_err, proc.ec, call.simple,
                                 call.log_all, call.log_ok, call.regexp)
       IN /\ events' = events \o <<"drain">> \o closed \o <<"post_hook">> \o o.log
          /\ Finish(o)
    /\ caller' = ChdirBack(loc.owd)
    /\ UNCHANGED <<strictness, extended_dry_run, call, proc, prev, ncalls>>

\* ------------------------------------------------------------------ the calls
\* a child that is not interactive writes plain output
PlainChild == [vocab |-> {"out"}, max |-> MaxChunks, waits |-> FALSE]

Cmds == {StrCmd(TYPE_MODULE), StrCmd(<<"make">>), ListCmd(<<"type", "module">>)}

RscArgs ==
    [fn : {"run_shell_cmd"}, cmd : Cmds, fail_on_error : BOOLEAN,
     stdin : {None, "y"}, in_dry_run : BOOLEAN, output_file : {TRUE},
     with_hooks : {TRUE}, timeout : {<<>>, <<1>>}, stream_output : BOOLEAN,
     split_stderr : {FALSE}, work_dir : {None}, qa_patterns : {<<>>},
     qa_wait_patterns : {<<>>}, qa_timeout : {1}, child : {PlainChild},
     hook_res : {NoHookRes}]

RcArgs ==
    [fn : {"run_cmd"}, path : {None}, cmd : Cmds, log_ok : {TRUE}, log_all : {FALSE},
     simple : BOOLEAN, inp : {None, "y"}, regexp : {TRUE}, log_output : BOOLEAN,
     force_in_dry_run : BOOLEAN, shell : {None}, with_hooks : {TRUE},
     child : {PlainChild}, hook_res : {NoHookRes}, asynchronous : {FALSE}]

Str(toks) == [type |-> "str", val |-> toks]
List(items) == [type |-> "list", val |-> items]

\* an interactive child that asks one question
AskingChild == [vocab |-> {"Q1"}, max |-> 1, waits |-> FALSE]

RqArgs ==
    [fn : {"run_cmd_qa"}, path : {None}, cmd : {StrCmd(<<"configure">>)},
     qa : {<<[q |-> "Q1", answers |-> Str(<<"y">>)]>>}, std_qa : {<<>>},
     no_qa : {<<>>}, maxhits : {0}, simple : BOOLEAN, log_all : BOOLEAN,
     log_ok : {TRUE}, regexp : {TRUE}, child : {AskingChild},
     hook_res : {NoHookRes}]

\* a call of run_shell_cmd (through its cache-aware wrapper)
RunShellCmd == \E a \in RscArgs: cache_aware_func(a, "rsc_enter")

\* a call of run_cmd (through its cache-aware wrapper)
RunCmd == \E a \in RcArgs: cache_aware_func(a, "rc_enter")

\* a call of run_cmd_qa
RunCmdQa == \E a \in RqArgs: direct_call(a, "rq_enter")

Next ==
    \/ RunShellCmd
    \/ RunCmd
    \/ RunCmdQa
    \/ \E f \in Funcs: ClearCache(f)
    \/ RscPrepare
    \/ RscSpawn
    \/ RscWriteStdin
    \/ RscLoopTop
    \/ RscRead
    \/ RscSleepPoll
    \/ RscDrain
    \/ RscCommunicate
    \/ RscFinish
    \/ RcPrepare
    \/ RcSpawn
    \/ RcPollRead
    \/ RcFinish
    \/ RqPrepare
    \/ RqSpawn
    \/ RqCycle
    \/ RqSleepPoll
    \/ RqFinish
    \/ TermStart
    \/ TermWait1
    \/ TermKill
    \/ TermWait2
    \/ ProcWrite
    \/ ProcExit
    \/ Tick

Spec == Init /\ [][Next]_vars

\* ------------------------------------- the interactive calls, in more detail
\* what an interactive child can write: two questions, output that is expected
\* and asks nothing, other output, a newline
QAChild ==
    [vocab |-> {"Q1", "Q2", "W", "x", "\n"}, max |-> MaxQAChunks, waits |-> FALSE]

\* two questions whose patterns both match Q1, and a rotating answer list
\* whose second answer ends with a newline already
QAPatterns ==
    << [pat |-> {"Q1"}, answers |-> Str(<<"y">>)],
       [pat |-> {"Q1", "Q2"}, answers |-> List(<< <<"a">>, <<"b", "\n">> >>)] >>

\* a wait pattern that matches W, and Q1 as well
QAWaitPatterns == << {"W", "Q1"} >>

RscQAArgs ==
    [fn : {"run_shell_cmd"}, cmd : {StrCmd(<<"configure">>)},
     fail_on_error : {TRUE}, stdin : {None}, in_dry_run : {FALSE},
     output_file : {TRUE}, with_hooks : {TRUE}, timeout : {<<>>},
     stream_output : {FALSE}, split_stderr : {FALSE}, work_dir : {None},
     qa_patterns : {QAPatterns}, qa_wait_patterns : {<<>>, QAWaitPatterns},
     qa_timeout : {1, 3}, child : {QAChild}, hook_res : {NoHookRes}]

RqQAArgs ==
    [fn : {"run_cmd_qa"}, path : {None}, cmd : {StrCmd(<<"configure">>)},
     qa : {<<[q |-> "Q1", answers |-> Str(<<"y">>)]>>},
     std_qa : {<<[pat |-> {"Q1", "Q2"},
                  answers |-> List(<< <<"a">>, <<"b", "\n">> >>)]>>},
     no_qa : {<<>>, QAWaitPatterns}, maxhits : {0, 1}, simple : {FALSE},
     log_all : {FALSE}, log_ok : {TRUE}, regexp : {TRUE}, child : {QAChild},
     hook_res : {NoHookRes}]

InitQA == Init /\ extended_dry_run = FALSE

NextQA ==
    \/ \E a \in RscQAArgs: cache_aware_func(a, "rsc_enter")
    \/ \E a \in RqQAArgs: direct_call(a, "rq_enter")
    \/ RscPrepare
    \/ RscSpawn
    \/ RscLoopTop
    \/ RscRead
    \/ RscQA
    \/ RscSleepPoll
    \/ RscDrain
    \/ RscFinish
    \/ RqPrepare
    \/ RqSpawn
    \/ RqCycle
    \/ RqSleepPoll
    \/ RqFinish
    \/ ProcWrite
    \/ ProcExit

SpecQA == InitQA /\ [][NextQA]_vars

\* --------------------------- an interactive command that waits for its answer
\* a child that prints one question, waits for input, and ends once it has it
WaitingChild == [vocab |-> {"Q1"}, max |-> 1, waits |-> TRUE]

RscLiveArgs ==
    [fn : {"run_shell_cmd"}, cmd : {StrCmd(<<"configure">>)},
     fail_on_error : BOOLEAN, stdin : {None}, in_dry_run : {FALSE},
     output_file : {TRUE}, with_hooks : {TRUE}, timeout : {<<>>},
     stream_output : {FALSE}, split_stderr : {FALSE}, work_dir : {None},
     qa_patterns : {<<[pat |-> {"Q1"}, answers |-> Str(<<"y">>)]>>},
     qa_wait_patterns : {<<>>}, qa_timeout : {1, 3}, child : {WaitingChild},
     hook_res : {NoHookRes}]

\* the steps of the thread that runs the call
CallerStep ==
    \/ RscPrepare
    \/ RscSpawn
    \/ RscLoopTop
    \/ RscRead
    \/ RscQA
    \/ RscSleepPoll
    \/ RscDrain
    \/ RscFinish

NextLive ==
    \/ \E a \in RscLiveArgs: cache_aware_func(a, "rsc_enter")
    \/ RscPrepare
    \/ RscSpawn
    \/ RscLoopTop
    \/ RscRead
    \/ RscQA
    \/ RscSleepPoll
    \/ RscDrain
    \/ RscFinish
    \/ ProcWrite
    \/ ProcExit

\* the thread of the caller keeps running, and a child that is not blocked
\* ends; when the child asks its question is left open
SpecLive ==
    InitQA /\ [][NextLive]_vars /\ WF_vars(CallerStep) /\ WF_vars(ProcExit)

\* ------------------------------------------ calls with a pre-hook that replaces
RscHookArgs ==
    [fn : {"run_shell_cmd"}, cmd : {StrCmd(<<"make">>), ListCmd(<<"make", "-j">>)},
     fail_on_error : BOOLEAN, stdin : {None}, in_dry_run : {FALSE},
     output_file : {TRUE}, with_hooks : BOOLEAN, timeout : {<<>>},
     stream_output : BOOLEAN, split_stderr : {FALSE}, work_dir : {None},
     qa_patterns : {<<>>}, qa_wait_patterns : {<<>>}, qa_timeout : {1},
     child : {PlainChild}, hook_res : PreHookResults]

RcHookArgs ==
    [fn : {"run_cmd"}, path : {None}, cmd : {StrCmd(<<"make">>)}, log_ok : {TRUE},
     log_all : {FALSE}, simple : BOOLEAN, inp : {None}, regexp : {TRUE},
     log_output : {FALSE}, force_in_dry_run : {FALSE}, shell : {None},
     with_hooks : BOOLEAN, child : {PlainChild}, hook_res : PreHookResults,
     asynchronous : {FALSE}]

NextHook ==
    \/ \E a \in RscHookArgs: cache_aware_func(a, "rsc_enter")
    \/ \E a \in RcHookArgs: cache_aware_func(a, "rc_enter")
    \/ RscPrepare
    \/ RscSpawn
    \/ RscLoopTop
    \/ RscRead
    \/ RscSleepPoll
    \/ RscDrain
    \/ RscCommunicate
    \/ RscFinish
    \/ RcPrepare
    \/ RcSpawn
    \/ RcPollRead
    \/ RcFinish
    \/ ProcWrite
    \/ ProcExit

SpecHook == Init /\ [][NextHook]_vars

\* ------------------------------------------- run_cmd under every strictness
\* the strictness levels and a value that is none of them
StrictnessValues == {IGNORE, WARN, ERROR, "strict"}

InitParse ==
    /\ strictness \in StrictnessValues
    /\ extended_dry_run = FALSE
    /\ NoCallYet

\* a child whose output may hold a line that matches the default error pattern
FailingChild ==
    [vocab |-> {"out", "Error", "\n"}, max |-> MaxLogChunks, waits |-> FALSE]

RcParseArgs ==
    [fn : {"run_cmd"}, path : {None}, cmd : {StrCmd(<<"make">>)}, log_ok : BOOLEAN,
     log_all : BOOLEAN, simple : BOOLEAN, inp : {None}, regexp : BOOLEAN,
     log_output : {FALSE}, force_in_dry_run : {FALSE}, shell : {None},
     with_hooks : {FALSE}, child : {FailingChild}, hook_res : {NoHookRes},
     asynchronous : {FALSE}]

NextParse ==
    \/ \E a \in RcParseArgs: cache_aware_func(a, "rc_enter")
    \/ RcPrepare
    \/ RcSpawn
    \/ RcPollRead
    \/ RcFinish
    \/ ProcWrite
    \/ ProcExit

SpecParse == InitParse /\ [][NextParse]_vars

\* ------------------------------------- extract_errors_from_log and its caller
\* an entry of reg_exps: a pattern alone, or a 2-tuple of pattern and action; a
\* pattern is the set of tokens it matches
ReStr(re) == [type |-> "str", re |-> re]
ReTuple(re, action) == [type |-> "tuple", re |-> re, action |-> action]

\* lines 1284-1285: a single string is promoted to a list
RegExpsList(reg_exps) ==
    IF reg_exps.type = "str" THEN <<ReStr(reg_exps.re)>> ELSE reg_exps.val

\* every rule is taken to have action ERROR
ReActionAlwaysError(cur) == ERROR

\* lines 1290-1294: a pattern alone has action ERROR
ReAction(cur) == IF cur.type = "str" THEN ERROR ELSE cur.action

\* lines 1300-1301: action must be one of IGNORE, WARN, ERROR
InvalidInput(reg_exps) ==
    \E k \in DOMAIN RegExpsList(reg_exps):
        ReAction(RegExpsList(reg_exps)[k]) \notin {IGNORE, WARN, ERROR}

\* line 1303: the compiled patterns with their actions, in the order given
re_tuples(reg_exps) ==
    [k \in DOMAIN RegExpsList(reg_exps) |->
        [re |-> RegExpsList(reg_exps)[k].re,
         action |-> ReAction(RegExpsList(reg_exps)[k])]]

\* reg_exp.search(line)
Search(re, line) == \E k \in DOMAIN line: line[k] \in re

\* a choice of rule that lets the last matching rule decide
LastMatch(rules, line) ==
    IF \E k \in DOMAIN rules: Search(rules[k].re, line)
    THEN CHOOSE k \in DOMAIN rules:
            /\ Search(rules[k].re, line)
            /\ \A j \in DOMAIN rules: j > k => ~Search(rules[j].re, line)
    ELSE 0

\* lines 1310-1316: the rule at which the inner loop breaks for a line, 0 when
\* the loop runs to its end
FirstMatch(rules, line) ==
    IF \E k \in DOMAIN rules: Search(rules[k].re, line)
    THEN CHOOSE k \in DOMAIN rules:
            /\ Search(rules[k].re, line)
            /\ \A j \in 1..(k - 1): ~Search(rules[j].re, line)
    ELSE 0

\* the lines of a text that are appended to the list kept for an action
Appended(rules, lines, action) ==
    LET Hit(line) == /\ FirstMatch(rules, line) > 0
                     /\ rules[FirstMatch(rules, line)].action = action
    IN SelectSeq(lines, Hit)

\* nub: the list without the later occurrences of its elements
RECURSIVE nub(_)
nub(l) ==
    IF l = <<>> THEN <<>>
    ELSE LET front == nub(SubSeq(l, 1, Len(l) - 1))
             last == l[Len(l)]
         IN IF \E k \in DOMAIN front: front[k] = last
            THEN front ELSE Append(front, last)

\* lines 1272-1317: the outcome of extract_errors_from_log
extract_errors_from_log(log_txt, reg_exps) ==
    IF InvalidInput(reg_exps)
    THEN [kind |-> "EasyBuildError", what |-> "invalid_input"]
    ELSE [kind |-> "return",
          val |-> [warnings |-> nub(Appended(re_tuples(reg_exps),
                                             SplitLines(log_txt), WARN)),
                   errors |-> nub(Appended(re_tuples(reg_exps),
                                           SplitLines(log_txt), ERROR))]]

\* a call of extract_errors_from_log
ExtractErrorsFromLog ==
    /\ pc = "eefl_enter"
    /\ Complete(extract_errors_from_log(call.log_txt, call.reg_exps))
    /\ cache' = cache
    /\ events' = events
    /\ UNCHANGED <<errors_found_in_log, strictness, extended_dry_run, call, caller,
                   proc, prev, ncalls>>

\* lines 1320-1336: check_log_for_errors
CheckLogForErrors ==
    /\ pc = "clfe_enter"
    /\ LET o == extract_errors_from_log(call.log_txt, call.reg_exps)
       IN IF o.kind # "return"
          THEN /\ Complete(o)
               /\ events' = events
               /\ UNCHANGED errors_found_in_log
          ELSE /\ errors_found_in_log' = errors_found_in_log
                                           + Len(o.val.warnings) + Len(o.val.errors)
               /\ events' = IF o.val.warnings # <<>>
                            THEN Append(events, "warn_found") ELSE events
               /\ IF o.val.errors # <<>>
                  THEN Complete([kind |-> "EasyBuildError", what |-> "errors_found",
                                 lines |-> o.val.errors])
                  ELSE Complete([kind |-> "return", val |-> None])
    /\ cache' = cache
    /\ UNCHANGED <<strictness, extended_dry_run, call, caller, proc, prev, ncalls>>

\* the log texts and rules the two functions are called with
LogVocab == {"Error", "warning", "ok", "\n"}
LogTexts == UNION {[1..n -> LogVocab] : n \in 0..MaxLogLen}
RegExps ==
    {[type |-> "str", re |-> {"Error"}],
     List(<<ReStr({"Error"})>>),
     List(<<ReTuple({"warning"}, WARN)>>),
     List(<<ReTuple({"warning"}, WARN), ReStr({"Error"})>>),
     List(<<ReTuple({"Error", "warning"}, WARN), ReTuple({"Error"}, ERROR)>>),
     List(<<ReTuple({"Error"}, IGNORE), ReTuple({"Error", "warning"}, ERROR)>>),
     List(<<ReTuple({"Error"}, "fatal")>>)}

LogArgs(fn) == [fn : {fn}, log_txt : LogTexts, reg_exps : RegExps]

NextLog ==
    \/ \E a \in LogArgs("extract_errors_from_log"): direct_call(a, "eefl_enter")
    \/ \E a \in LogArgs("check_log_for_errors"): direct_call(a, "clfe_enter")
    \/ ExtractErrorsFromLog
    \/ CheckLogForErrors

SpecLog == InitQA /\ [][NextLog]_vars

\* ------------------------------------------- calls around clear and update
\* entries a caller seeds a cache with: for an allow-listed command, for a
\* command that is not, and for a command with input
Seeded(v) ==
    RunShellCmdResult(<<v>>, 0, <<v>>, NoStderr, "cwd", NoPath, NoPath)
Entries ==
    {Put(EmptyDict, <<StrCmd(TYPE_MODULE), None>>, Seeded("seeded")),
     Put(EmptyDict, <<StrCmd(<<"make">>), "y">>, Seeded("made"))}

RscCacheArgs ==
    [fn : {"run_shell_cmd"}, cmd : {StrCmd(TYPE_MODULE), StrCmd(<<"make">>)},
     fail_on_error : {FALSE}, stdin : {None, "y"}, in_dry_run : {FALSE},
     output_file : {TRUE}, with_hooks : {TRUE}, timeout : {<<>>},
     stream_output : {FALSE}, split_stderr : {FALSE}, work_dir : {None},
     qa_patterns : {<<>>}, qa_wait_patterns : {<<>>}, qa_timeout : {1},
     child : {PlainChild}, hook_res : {NoHookRes}]

NextCache ==
    \/ \E a \in RscCacheArgs: cache_aware_func(a, "rsc_enter")
    \/ \E f \in Funcs: ClearCache(f)
    \/ \E f \in Funcs, e \in Entries: UpdateCache(f, e)
    \/ RscPrepare
    \/ RscSpawn
    \/ RscCommunicate
    \/ RscFinish
    \/ ProcWrite
    \/ ProcExit

SpecCache == InitQA /\ [][NextCache]_vars

\* ------------------------------------------------------------ check_async_cmd
\* an output that leaves out what was collected before
AddedOnly(output, add_out) == add_out

\* line 808: output += add_out
Collected(output, add_out) == output \o add_out

\* the dict check_async_cmd returns
CheckResult(done, exit_code, output) ==
    [done |-> done, exit_code |-> exit_code, output |-> output]

\* the caller holds the handle of a command that it has not seen completed
HandleHeld ==
    /\ pc = "done"
    /\ outcome.kind = "return"
    /\ \/ call.fn = "run_cmd" /\ call.asynchronous
                                /\ "handle" \in DOMAIN outcome.val
       \/ call.fn = "check_async_cmd" /\ ~outcome.val.done

\* the output collected so far that a caller may pass on: none, or the output
\* of the check before
PassedOutputs ==
    IF call.fn = "check_async_cmd" THEN {<<>>, outcome.val.output} ELSE {<<>>}

\* a call of check_async_cmd with the handle: the process and its pipe are
\* those of the command
CheckAsyncCmd ==
    /\ HandleHeld
    /\ LET n == IF call.fn = "check_async_cmd" THEN call.n + 1 ELSE 1
       IN /\ n <= MaxChecks
          /\ \E fail_on_error \in BOOLEAN, size \in {0, 1024},
                output \in PassedOutputs:
                /\ call' = [fn |-> "check_async_cmd", cmd |-> call.cmd,
                            child |-> call.child, fail_on_error |-> fail_on_error,
                            output_read_size |-> size, output |-> output, n |-> n,
                            owd |-> IF call.fn = "check_async_cmd"
                                    THEN call.owd ELSE outcome.val.cwd]
                /\ loc' = [output |-> output]
    /\ pc' = "cac_read"
    /\ events' = <<>>
    /\ outcome' = NoOutcome
    /\ prev' = NoPrev
    /\ UNCHANGED <<errors_found_in_log, strictness, extended_dry_run, cache,
                   proc, pipe, elapsed, ncalls, caller>>

\* lines 803-808: with a read size, one read of the pipe, which waits for
\* output or for the end of the child
CacRead ==
    /\ pc = "cac_read"
    /\ IF call.output_read_size = 0
       THEN UNCHANGED <<loc, pipe>>
       ELSE /\ pipe # <<>> \/ proc.st = "exited"
            /\ LET add_out == IF pipe # <<>> THEN Decode(<<Head(pipe)>>) ELSE <<>>
               IN loc' = [loc EXCEPT !.output = Collected(@, add_out)]
            /\ pipe' = IF pipe # <<>> THEN Tail(pipe) ELSE pipe
    /\ pc' = "cac_poll"
    /\ UNCHANGED <<errors_found_in_log, strictness, extended_dry_run, cache,
                   call, caller, proc, elapsed, events, outcome, prev, ncalls>>

\* lines 810-826: poll; a command that has ended is completed by complete_cmd
\* (lines 856-898: drain, post-hook, parse_cmd_output with log_ok =
\* fail_on_error), and the dict is returned
CacPoll ==
    /\ pc = "cac_poll"
    /\ IF proc.st = "running"
       THEN /\ outcome' = [kind |-> "return",
                           val |-> CheckResult(FALSE, None, loc.output)]
            /\ UNCHANGED <<errors_found_in_log, proc, pipe, events, caller>>
       ELSE LET stdouterr == loc.output \o Decode(pipe)
                o == parse_cmd_output(stdouterr, proc.ec, FALSE, FALSE,
                                      call.fail_on_error, TRUE)
            IN /\ proc' = Poll(proc)
               /\ pipe' = <<>>
               /\ events' = events \o <<"drain", "post_hook">> \o o.log
               /\ errors_found_in_log' = errors_found_in_log + Len(o.res)
               /\ caller' = ChdirBack(call.owd)
               /\ outcome' = IF o.kind = "return"
                             THEN [kind |-> "return",
                                   val |-> CheckResult(TRUE, proc.ec, o.val.out)]
                             ELSE [kind |-> o.kind, what |-> o.what]
    /\ pc' = "done"
    /\ loc' = NoLoc
    /\ UNCHANGED <<strictness, extended_dry_run, cache, call, elapsed, prev,
                   ncalls>>

RcAsyncArgs ==
    [fn : {"run_cmd"}, path : {None}, cmd : {StrCmd(<<"make">>)}, log_ok : {TRUE},
     log_all : {FALSE}, simple : {FALSE}, inp : {None}, regexp : {TRUE},
     log_output : {FALSE}, force_in_dry_run : {FALSE}, shell : {None},
     with_hooks : {TRUE}, child : {FailingChild}, hook_res : {NoHookRes},
     asynchronous : {TRUE}]

NextAsync ==
    \/ \E a \in RcAsyncArgs: cache_aware_func(a, "rc_enter")
    \/ RcPrepare
    \/ RcSpawn
    \/ CheckAsyncCmd
    \/ CacRead
    \/ CacPoll
    \/ ProcWrite
    \/ ProcExit

SpecAsync == InitQA /\ [][NextAsync]_vars

\* ------------------------------------------------ calls with a timeout set
RscTimeoutArgs ==
    [fn : {"run_shell_cmd"}, cmd : {StrCmd(<<"make">>)}, fail_on_error : {TRUE},
     stdin : {None, "y", "big"}, in_dry_run : {FALSE}, output_file : {TRUE},
     with_hooks : {TRUE}, timeout : {<<1>>}, stream_output : BOOLEAN,
     split_stderr : {FALSE}, work_dir : {None}, qa_patterns : {<<>>},
     qa_wait_patterns : {<<>>}, qa_timeout : {1}, child : {PlainChild},
     hook_res : {NoHookRes}]

\* the steps of the thread that runs a call of run_shell_cmd with a timeout
TimedCallerStep ==
    \/ RscPrepare
    \/ RscSpawn
    \/ RscWriteStdin
    \/ RscLoopTop
    \/ RscRead
    \/ RscSleepPoll
    \/ RscDrain
    \/ RscCommunicate
    \/ RscFinish
    \/ TermStart
    \/ TermWait1
    \/ TermKill
    \/ TermWait2

NextTimeout ==
    \/ \E a \in RscTimeoutArgs: cache_aware_func(a, "rsc_enter")
    \/ RscPrepare
    \/ RscSpawn
    \/ RscWriteStdin
    \/ RscLoopTop
    \/ RscRead
    \/ RscSleepPoll
    \/ RscDrain
    \/ RscCommunicate
    \/ RscFinish
    \/ TermStart
    \/ TermWait1
    \/ TermKill
    \/ TermWait2
    \/ ProcWrite
    \/ ProcExit
    \/ ProcReadStdin
    \/ Tick

\* the thread of the caller takes every step it can take, and time passes;
\* the child is left to do as it likes: to write or not, to read its input or
\* not, to end or not
SpecTimeout ==
    InitQA /\ [][NextTimeout]_vars /\ WF_vars(TimedCallerStep) /\ WF_vars(Tick)

\* ------------------------------------------- calls whose spawn may fail
RscSpawnArgs ==
    [fn : {"run_shell_cmd"}, cmd : {StrCmd(<<"make">>)}, fail_on_error : BOOLEAN,
     stdin : {None}, in_dry_run : {FALSE}, output_file : {TRUE},
     with_hooks : BOOLEAN, timeout : {<<>>}, stream_output : {FALSE},
     split_stderr : {FALSE}, work_dir : {None}, qa_patterns : {<<>>},
     qa_wait_patterns : {<<>>}, qa_timeout : {1}, child : {PlainChild},
     hook_res : {NoHookRes}]

RcSpawnArgs ==
    [fn : {"run_cmd"}, path : {None}, cmd : {StrCmd(<<"make">>)}, log_ok : BOOLEAN,
     log_all : {FALSE}, simple : {FALSE}, inp : {None}, regexp : {TRUE},
     log_output : {FALSE}, force_in_dry_run : {FALSE}, shell : {None},
     with_hooks : BOOLEAN, child : {PlainChild}, hook_res : {NoHookRes},
     asynchronous : {FALSE}]

RqSpawnArgs ==
    [fn : {"run_cmd_qa"}, path : {None}, cmd : {StrCmd(<<"configure">>)},
     qa : {<<[q |-> "Q1", answers |-> Str(<<"y">>)]>>}, std_qa : {<<>>},
     no_qa : {<<>>}, maxhits : {0}, simple : {FALSE}, log_all : BOOLEAN,
     log_ok : BOOLEAN, regexp : {TRUE}, child : {AskingChild},
     hook_res : {NoHookRes}]

NextSpawn ==
    \/ \E a \in RscSpawnArgs: cache_aware_func(a, "rsc_enter")
    \/ \E a \in RcSpawnArgs: cache_aware_func(a, "rc_enter")
    \/ \E a \in RqSpawnArgs: direct_call(a, "rq_enter")
    \/ RscPrepare
    \/ RscSpawn
    \/ RscCommunicate
    \/ RscFinish
    \/ RcPrepare
    \/ RcSpawn
    \/ RcPollRead
    \/ RcFinish
    \/ RqPrepare
    \/ RqSpawn
    \/ RqCycle
    \/ RqSleepPoll
    \/ RqFinish
    \/ ProcWrite
    \/ ProcExit

\* every strictness level, every value of the flags that decide about errors
SpecSpawn == InitParse /\ [][NextSpawn]_vars

\* ------------------------------------ calls that collect output in a loop
\* a child that writes up to MaxLogChunks chunks, which differ
TalkingChild == [vocab |-> {"a", "b"}, max |-> MaxLogChunks, waits |-> FALSE]

RscOutputArgs ==
    [fn : {"run_shell_cmd"}, cmd : {StrCmd(<<"make">>)}, fail_on_error : {FALSE},
     stdin : {None}, in_dry_run : {FALSE}, output_file : {TRUE},
     with_hooks : {TRUE}, timeout : {<<>>, <<1>>}, stream_output : {TRUE},
     split_stderr : {FALSE}, work_dir : {None}, qa_patterns : {<<>>},
     qa_wait_patterns : {<<>>}, qa_timeout : {1}, child : {TalkingChild},
     hook_res : {NoHookRes}]

RcOutputArgs ==
    [fn : {"run_cmd"}, path : {None}, cmd : {StrCmd(<<"make">>)}, log_ok : {FALSE},
     log_all : {FALSE}, simple : {FALSE}, inp : {None}, regexp : {FALSE},
     log_output : {FALSE}, force_in_dry_run : {FALSE}, shell : {None},
     with_hooks : {TRUE}, child : {TalkingChild}, hook_res : {NoHookRes},
     asynchronous : {FALSE}]

NextOutput ==
    \/ \E a \in RscOutputArgs: cache_aware_func(a, "rsc_enter")
    \/ \E a \in RcOutputArgs: cache_aware_func(a, "rc_enter")
    \/ RscPrepare
    \/ RscSpawn
    \/ RscLoopTop
    \/ RscRead
    \/ RscSleepPoll
    \/ RscDrain
    \/ RscFinish
    \/ RcPrepare
    \/ RcSpawn
    \/ RcPollRead
    \/ RcFinish
    \/ TermStart
    \/ TermWait1
    \/ TermKill
    \/ TermWait2
    \/ ProcWrite
    \/ ProcExit
    \/ Tick

SpecOutput == InitQA /\ [][NextOutput]_vars

\* ------------------------- calls of one command with options that differ
RscOptionArgs ==
    [fn : {"run_shell_cmd"}, cmd : {StrCmd(TYPE_MODULE)}, fail_on_error : {FALSE},
     stdin : {None}, in_dry_run : {FALSE}, output_file : {TRUE},
     with_hooks : {TRUE}, timeout : {<<>>}, stream_output : {FALSE},
     split_stderr : BOOLEAN, work_dir : {None, "dir"}, qa_patterns : {<<>>},
     qa_wait_patterns : {<<>>}, qa_timeout : {1}, child : {PlainChild},
     hook_res : {NoHookRes}]

NextOption ==
    \/ \E a \in RscOptionArgs: cache_aware_func(a, "rsc_enter")
    \/ RscPrepare
    \/ RscSpawn
    \/ RscCommunicate
    \/ RscFinish
    \/ ProcWrite
    \/ ProcExit

SpecOption == InitQA /\ [][NextOption]_vars

\* ------------- calls that are given a directory, a log, an argument vector
RcPathArgs ==
    [fn : {"run_cmd"}, path : {None, "dir"},
     cmd : {StrCmd(<<"make">>), ListCmd(<<"make">>)},
     log_ok : BOOLEAN, log_all : {FALSE}, simple : {FALSE}, inp : {None},
     regexp : {TRUE}, log_output : BOOLEAN, force_in_dry_run : {FALSE},
     shell : {None, ShellFalse}, with_hooks : {TRUE}, child : {PlainChild},
     hook_res : {NoHookRes}, asynchronous : {FALSE}]

RqPathArgs ==
    [fn : {"run_cmd_qa"}, path : {None, "dir"}, cmd : {StrCmd(<<"configure">>)},
     qa : {<<[q |-> "Q1", answers |-> Str(<<"y">>)]>>}, std_qa : {<<>>},
     no_qa : {<<>>}, maxhits : {0}, simple : {FALSE}, log_all : BOOLEAN,
     log_ok : {TRUE}, regexp : {TRUE}, child : {AskingChild},
     hook_res : {NoHookRes}]

NextPath ==
    \/ \E a \in RcPathArgs: cache_aware_func(a, "rc_enter")
    \/ \E a \in RqPathArgs: direct_call(a, "rq_enter")
    \/ RcPrepare
    \/ RcSpawn
    \/ RcPollRead
    \/ RcFinish
    \/ RqPrepare
    \/ RqSpawn
    \/ RqCycle
    \/ RqSleepPoll
    \/ RqFinish
    \/ ProcWrite
    \/ ProcExit

\* with and without dry-run mode
SpecPath == Init /\ [][NextPath]_vars

\* ------------------------------------- two threads call a decorated function
\* Nothing in run_cmd_cache holds a lock: the threads of one process share the
\* dict of line 167 and run cache_aware_func (lines 170-181) each at its own
\* pace. loc holds the frame of each thread, events what the process did.
Threads == {1, 2}

\* the frame of a thread that is about to test the cache (line 176)
AtCheck == [at |-> "check", res |-> NoOutcome]

\* both threads make this call
ThreadArgs ==
    [fn : {"run_shell_cmd"}, cmd : {StrCmd(c) : c \in CACHED_COMMANDS},
     stdin : {None, "y"}]
    \cup [fn : {"run_cmd"}, cmd : {StrCmd(c) : c \in CACHED_COMMANDS},
          inp : {None, "y"}]

\* what the child printed this time
ThreadOutputs == {<<>>, <<"out">>}

\* the result of a run that ended with exit code 0 and this output
ThreadResult(c, out) ==
    IF c.fn = "run_cmd" THEN OutputAndEc(out, 0)
    ELSE RunShellCmdResult(to_cmd_str(c.cmd), 0, out, NoStderr, "cwd",
                           NoPath, NoPath)

InitThreads ==
    /\ strictness = WARN
    /\ extended_dry_run = FALSE
    /\ errors_found_in_log = 0
    /\ cache = [f \in Funcs |-> EmptyDict]
    /\ pc = "threads"
    /\ call \in ThreadArgs
    /\ loc = [t \in Threads |-> AtCheck]
    /\ proc = NoProc
    /\ pipe = <<>>
    /\ elapsed = 0
    /\ events = <<>>
    /\ outcome = NoOutcome
    /\ prev = NoPrev
    /\ ncalls = 0
    /\ caller = [NoCaller EXCEPT !.cmd = call.cmd]

\* a step of thread t touches its frame, the dict and the events only
ThreadStep(t, frame) ==
    /\ pc = "threads"
    /\ loc' = [loc EXCEPT ![t] = frame]
    /\ UNCHANGED <<errors_found_in_log, strictness, extended_dry_run, pc, call,
                   proc, pipe, elapsed, outcome, prev, ncalls, caller>>

\* lines 176-178: isinstance(cmd, str) and key in cache; return cache[key]
ThreadCheck(t) ==
    /\ loc[t].at = "check"
    /\ IF CacheHit(call)
       THEN /\ ThreadStep(t, [at |-> "done",
                              res |-> [kind |-> "return",
                                       val |-> cache[call.fn][CacheKey(call)]]])
            /\ events' = Append(events, "cache_hit")
       ELSE /\ ThreadStep(t, [loc[t] EXCEPT !.at = "func"])
            /\ events' = events
    /\ cache' = cache

\* line 179: res = func(cmd, *args, **kwargs), up to the start of the child
ThreadSpawn(t) ==
    /\ loc[t].at = "func"
    /\ ThreadStep(t, [loc[t] EXCEPT !.at = "running"])
    /\ events' = Append(events, "spawn")
    /\ cache' = cache

\* line 179: the child ends and func returns what it printed
ThreadComplete(t) ==
    /\ loc[t].at = "running"
    /\ \E out \in ThreadOutputs:
          ThreadStep(t, [at |-> "store",
                         res |-> [kind |-> "return",
                                  val |-> ThreadResult(call, out)]])
    /\ events' = events
    /\ cache' = cache

\* lines 180-182: if cmd in CACHED_COMMANDS: cache[key] = res; return res
ThreadStore(t) ==
    /\ loc[t].at = "store"
    /\ ThreadStep(t, [loc[t] EXCEPT !.at = "done"])
    /\ events' = events
    /\ cache' = IF InCachedCommands(call.cmd)
                THEN [cache EXCEPT ![call.fn] =
                          Put(@, CacheKey(call), loc[t].res.val)]
                ELSE cache

NextThreads ==
    \/ \E t \in Threads: ThreadCheck(t)
    \/ \E t \in Threads: ThreadSpawn(t)
    \/ \E t \in Threads: ThreadComplete(t)
    \/ \E t \in Threads: ThreadStore(t)

\* two threads, one allow-listed command, an empty cache
SpecThreads == InitThreads /\ [][NextThreads]_vars

\* ================================================================= properties
\* an event of the current call
Happened(e) == \E k \in DOMAIN events : events[k] = e

\* the current call has ended by raising EasyBuildError for this reason
RaisedEasyBuildError(what) ==
    pc = "done" /\ outcome.kind = "EasyBuildError" /\ outcome.what = what

\* the current call of run_shell_cmd ran its process to completion and built
\* the result (line 556)
RanToCompletion ==
    pc = "done" /\ call.fn = "run_shell_cmd" /\ Happened("result")

\* C1: a call of run_shell_cmd that ran its process to completion raised
\* RunShellCmdError if and only if the exit code of the process is non-zero and
\* fail_on_error is set; otherwise it returned a result whose exit_code is the
\* exit code of the process
C1_RaisesIffNonZeroAndFailOnError ==
    RanToCompletion =>
        /\ outcome.kind = "RunShellCmdError"
              <=> (proc.ec # 0 /\ call.fail_on_error)
        /\ outcome.kind = "RunShellCmdError" => outcome.val.exit_code = proc.ec
        /\ outcome.kind # "RunShellCmdError" =>
              /\ outcome.kind = "return"
              /\ outcome.val.exit_code = proc.ec

\* C1, reached: a non-zero exit code returned as data
C1_NonZeroReturned ==
    /\ RanToCompletion
    /\ ~call.fail_on_error
    /\ outcome.kind = "return"
    /\ outcome.val.exit_code = 1

\* C2: every call of run_shell_cmd with fail_on_error set that returns
\* normally, from the cache or not, returns exit_code 0
C2_FailOnErrorReturnsZero ==
    (/\ pc = "done"
     /\ call.fn = "run_shell_cmd"
     /\ call.fail_on_error
     /\ outcome.kind = "return") => outcome.val.exit_code = 0

\* C3: once the timeout of a call of run_shell_cmd has expired the call goes
\* on to terminate the child and never returns a result; when the timeout
\* error reaches the caller the child has been terminated and is not running
C3_TimeoutTerminatesThenRaises ==
    /\ Happened("timeout") =>
          /\ pc \in {"term_start", "term_wait1", "term_kill", "term_wait2", "done"}
          /\ pc = "done" =>
                \/ RaisedEasyBuildError("timeout")
                \/ RaisedEasyBuildError("not_terminated")
    /\ RaisedEasyBuildError("timeout") =>
          /\ Happened("timeout")
          /\ Happened("terminated")
          /\ proc.st = "exited"
          /\ proc.returncode_set

\* C3, reached: the timeout expired in the poll loop while the child was
\* running, the child got the stop signal, and the timeout error was raised
C3_TimedOutInPollLoop ==
    /\ RaisedEasyBuildError("timeout")
    /\ call.stream_output
    /\ Happened("SIGTERM")

\* C4: a stall error of run_shell_cmd (qa_timeout) or run_cmd_qa (maxhits) is
\* raised only once the child has stopped, or has at least been sent a stop or
\* kill signal
C4_StallErrorAfterTerminate ==
    RaisedEasyBuildError("stall") =>
        proc.st # "running" \/ proc.sigterm \/ proc.sigkill

\* dry-run mode is active and the current call does not force real execution
DryRunCall ==
    /\ extended_dry_run
    /\ call.fn = "run_shell_cmd" => ~call.in_dry_run
    /\ call.fn = "run_cmd" => ~call.force_in_dry_run

\* a synthetic success result: exit code 0 and empty output
Synthetic(c, v) ==
    IF c.fn = "run_shell_cmd" THEN v.exit_code = 0 /\ v.output = <<>>
    ELSE v \in {Simple(TRUE), OutputAndEc(<<>>, 0)}

\* C5: with dry-run mode active and real execution not forced, a call of
\* run_shell_cmd, run_cmd or run_cmd_qa with a string command returns a
\* synthetic success result, spawns no process and runs no hook
C5_DryRunReturnsSynthetic ==
    (pc = "done" /\ DryRunCall /\ call.cmd.type = "str") =>
        /\ outcome.kind = "return"
        /\ Synthetic(call, outcome.val)
        /\ ~Happened("spawn")
        /\ ~Happened("pre_hook")
        /\ ~Happened("post_hook")

\* what changes the filesystem
FilesystemEvents == {"makedirs", "mkdtemp", "mkstemp", "open_log", "write_out"}

\* C6: a call in dry-run mode that does not force real execution changes
\* nothing in the filesystem
C6_DryRunNoFilesystemMutation ==
    (call.fn # None /\ DryRunCall) =>
        \A k \in DOMAIN events : events[k] \notin FilesystemEvents

\* the current call repeats the call that returned just before it: the same
\* function, the same allow-listed string command, the same input
RepeatsPrevious ==
    /\ prev # NoPrev
    /\ prev.fn \in Funcs
    /\ call.fn = prev.fn
    /\ call.cmd = prev.cmd
    /\ KwInput(call) = prev.input

\* C7: a call that immediately follows a returned call of the same allow-listed
\* string command with the same input returns the same result, and spawns no
\* process
C7_RepeatedCallServedFromCache ==
    (call.fn # None /\ RepeatsPrevious) =>
        /\ pc = "done"
        /\ outcome = prev.outcome
        /\ events = <<"cache_hit">>
        /\ proc = NoProc

\* C7, reached: a real result (with output) served a second time
C7_RealResultRepeated ==
    /\ call.fn = "run_shell_cmd"
    /\ RepeatsPrevious
    /\ pc = "done"
    /\ outcome.kind = "return"
    /\ outcome.val.output = <<"out">>

\* C8: every key of a result cache holds a string command of CACHED_COMMANDS,
\* and only such a command is served from a cache
C8_CacheHoldsAllowListedStrings ==
    /\ \A f \in Funcs : \A key \in DOMAIN cache[f] :
          key[1].type = "str" /\ key[1].val \in CACHED_COMMANDS
    /\ events = <<"cache_hit">> =>
          call.cmd.type = "str" /\ call.cmd.val \in CACHED_COMMANDS

\* C8, reached: a result was stored, and calls of a list command and of a
\* string command that is not allow-listed have returned
C8_StoredAndNotStored ==
    /\ \E f \in Funcs : DOMAIN cache[f] # {}
    /\ pc = "done"
    /\ outcome.kind = "return"
    /\ ~InCachedCommands(call.cmd)

\* C9: terminate_process escalates.  The kill signal is sent only right after
\* a wait that expired, which itself follows the stop signal; terminate_process
\* returns normally only for a process that has exited and been reaped; and
\* the call ends with the fatal error exactly when the second wait expired
C9_TerminateEscalates ==
    call.fn = "run_shell_cmd" =>
        /\ \A k \in DOMAIN events : events[k] = "SIGKILL" =>
              /\ k > 2
              /\ events[k - 1] = "wait_expired"
              /\ events[k - 2] = "SIGTERM"
        /\ proc.sigkill => proc.sigterm
        /\ Happened("terminated") => proc.st = "exited" /\ proc.returncode_set
        /\ (pc = "done" /\ Happened("timeout")) =>
              /\ RaisedEasyBuildError("not_terminated")
                    <=> events[Len(events)] = "wait_expired"
              /\ RaisedEasyBuildError("timeout")
                    <=> events[Len(events)] = "terminated"

\* C9, reached: the stop signal was not enough, the kill signal was sent, and
\* terminate_process returned
C9_KilledAfterGracePeriod ==
    /\ call.fn = "run_shell_cmd"
    /\ pc = "done"
    /\ Happened("SIGKILL")
    /\ Happened("terminated")

\* pattern i is the first of the patterns qa that matches the end of buf
IsFirstMatch(qa, buf, i) ==
    /\ i \in 1..Len(qa)
    /\ MatchesEnd(qa[i].pat, buf)
    /\ \A k \in 1..(i - 1) : ~MatchesEnd(qa[k].pat, buf)

\* some pattern of qa matches the end of buf
SomeMatch(qa, buf) == \E k \in 1..Len(qa) : MatchesEnd(qa[k].pat, buf)

\* a call is in its question-and-answer loop and has been through a cycle
InCycle(fn) == call.fn = fn /\ "cycle" \in DOMAIN loc /\ loc.cycle.n = 1

\* the possible replies of an answer source, as sent by _answer_question
RepliesOf(answers) ==
    IF answers.type = "str" THEN {answers.val \o <<"\n">>}
    ELSE {answers.val[k] \o <<"\n">> : k \in DOMAIN answers.val}

\* the possible replies of a processed answer list of run_cmd_qa
ListRepliesOf(answers) == {answers.val[k] : k \in DOMAIN answers.val}

\* the cycle of _answer_question: the reply goes to the first question pattern
\* that matches and to no other; the wait patterns are consulted exactly when
\* no question pattern matches
AnswerQuestionCycle ==
    InCycle("run_shell_cmd") =>
        LET c == loc.cycle
            qa == call.qa_patterns
        IN /\ c.answered > 0 =>
                 /\ IsFirstMatch(qa, c.buf, c.answered)
                 /\ c.reply \in RepliesOf(qa[c.answered].answers)
           /\ c.answered = 0 => c.reply = <<>>
           /\ SomeMatch(qa, c.buf) => c.answered > 0
           /\ c.waits_tried <=> ~SomeMatch(qa, c.buf)

\* the cycle of run_cmd_qa: a reply goes to the first pattern that matches, of
\* qa and else of std_qa, and to no other
RunCmdQaReplyToFirst ==
    InCycle("run_cmd_qa") =>
        LET c == loc.cycle
        IN /\ c.answered > 0 =>
                 /\ IsFirstMatch(loc.qa, c.buf, c.answered)
                 /\ c.std_answered = 0
                 /\ c.reply \in ListRepliesOf(loc.qa[c.answered].answers)
           /\ c.std_answered > 0 =>
                 /\ ~SomeMatch(loc.qa, c.buf)
                 /\ IsFirstMatch(loc.std_qa, c.buf, c.std_answered)
                 /\ c.reply \in ListRepliesOf(loc.std_qa[c.std_answered].answers)
           /\ (c.answered = 0 /\ c.std_answered = 0) => c.reply = <<>>

\* C10, as stated: in every cycle the first question pattern that matches the
\* accumulated output is replied to, and no other; the wait patterns are
\* consulted only when no question pattern matches
C10_EveryCycle ==
    /\ AnswerQuestionCycle
    /\ RunCmdQaReplyToFirst
    /\ InCycle("run_cmd_qa") =>
          LET c == loc.cycle
              matches == SomeMatch(loc.qa, c.buf) \/ SomeMatch(loc.std_qa, c.buf)
          IN /\ matches => (c.answered > 0 \/ c.std_answered > 0)
             /\ c.waits_tried => ~matches

\* C10, amended: as stated for _answer_question; in run_cmd_qa the patterns
\* are looked at only in a cycle that has read new output, where the first
\* that matches is replied to and no other, and the no-question patterns are
\* consulted only in a cycle without a reply in which the output did not grow
C10_FirstMatchingQuestionWins ==
    /\ AnswerQuestionCycle
    /\ RunCmdQaReplyToFirst
    /\ InCycle("run_cmd_qa") =>
          LET c == loc.cycle
              matches == SomeMatch(loc.qa, c.buf) \/ SomeMatch(loc.std_qa, c.buf)
              replied == c.answered > 0 \/ c.std_answered > 0
          IN /\ replied <=> (c.out # <<>> /\ matches)
             /\ c.waits_tried <=> (~replied /\ ~c.grew)

\* C10, reached: two question patterns match the output, and the first of
\* them was replied to
C10_TwoMatchFirstAnswered ==
    /\ InCycle("run_shell_cmd")
    /\ MatchesEnd(call.qa_patterns[1].pat, loc.cycle.buf)
    /\ MatchesEnd(call.qa_patterns[2].pat, loc.cycle.buf)
    /\ loc.cycle.answered = 1
    /\ loc.cycle.reply = <<"y", "\n">>

\* the answer list of the interactive calls: that of the second question
\* pattern of run_shell_cmd, that of the standard question of run_cmd_qa
ListOfAnswers(c) ==
    IF c.fn = "run_shell_cmd" THEN c.qa_patterns[2].answers.val
    ELSE c.std_qa[1].answers.val

\* the first word of each answer of that list, which no other answer has
IsListAnswer(tok) == tok \in {"a", "b"}

\* the answers of that list the child was sent, in order
ListAnswersGiven == SelectSeq(proc.input, IsListAnswer)

\* list l, rotated r times
RECURSIVE Rotated(_, _)
Rotated(l, r) == IF r = 0 THEN l ELSE Rotated(Tail(l) \o <<Head(l)>>, r - 1)

\* the answer list as the call holds it now
CurrentList ==
    IF call.fn = "run_shell_cmd" THEN loc.qa[2].answers.val
    ELSE loc.std_qa[1].answers.val

\* the answer list as the call held it at first
FirstList ==
    IF call.fn = "run_shell_cmd" THEN ListOfAnswers(call)
    ELSE new_std_qa(call.std_qa)[1].answers.val

\* C11: the k-th answer given from an answer list of length N is its element
\* (k-1) mod N, and the list the call holds is always a rotation of the list
\* it started with
C11_AnswersCycle ==
    call.fn \in {"run_shell_cmd", "run_cmd_qa"} =>
        LET l == ListOfAnswers(call)
            N == Len(l)
        IN /\ \A k \in DOMAIN ListAnswersGiven :
                 ListAnswersGiven[k] = Head(l[((k - 1) % N) + 1])
           /\ "qa" \in DOMAIN loc =>
                 \E r \in 0..(N - 1) : CurrentList = Rotated(FirstList, r)

\* C11, reached: a list of two answers has answered three times, the third
\* time with the answer of the first time
C11_ThreeAnswersOfTwo ==
    /\ call.fn \in {"run_shell_cmd", "run_cmd_qa"}
    /\ Len(ListAnswersGiven) = 3
    /\ ListAnswersGiven[3] = ListAnswersGiven[1]

\* an answer with a newline added unless it ends with one already
NewlineIfAbsent(a) ==
    IF Len(a) > 0 /\ a[Len(a)] = "\n" THEN a ELSE Append(a, "\n")

\* the answers a caller configured for an answer source
ConfiguredAnswers(answers) ==
    IF answers.type = "str" THEN {answers.val}
    ELSE {answers.val[k] : k \in DOMAIN answers.val}

\* C12: the text written to the input of the process on a question match is
\* a configured answer with a newline added only if it does not end with one
C12_NewlineOnlyIfAbsent ==
    /\ (InCycle("run_shell_cmd") /\ loc.cycle.answered > 0) =>
          \E a \in ConfiguredAnswers(call.qa_patterns[loc.cycle.answered].answers) :
              loc.cycle.reply = NewlineIfAbsent(a)
    /\ (InCycle("run_cmd_qa") /\ loc.cycle.answered > 0) =>
          \E a \in ConfiguredAnswers(call.qa[loc.cycle.answered].answers) :
              loc.cycle.reply = NewlineIfAbsent(a)
    /\ (InCycle("run_cmd_qa") /\ loc.cycle.std_answered > 0) =>
          \E a \in ConfiguredAnswers(call.std_qa[loc.cycle.std_answered].answers) :
              loc.cycle.reply = NewlineIfAbsent(a)

\* some wait pattern matches the end of buf
SomeWaitMatch(waits, buf) == \E w \in 1..Len(waits) : MatchesEnd(waits[w], buf)

\* C13: after a cycle in which no question pattern matches and a wait pattern
\* matches, the no-progress counter (time_no_match of run_shell_cmd, hit_count
\* of run_cmd_qa) is zero, and nothing was written to the process
C13_WaitPatternResetsCounter ==
    /\ (/\ InCycle("run_shell_cmd")
        /\ ~SomeMatch(call.qa_patterns, loc.cycle.buf)
        /\ SomeWaitMatch(call.qa_wait_patterns, loc.cycle.buf)) =>
          loc.time_no_match = 0 /\ loc.cycle.reply = <<>>
    /\ (/\ InCycle("run_cmd_qa")
        /\ ~SomeMatch(loc.qa, loc.cycle.buf)
        /\ ~SomeMatch(loc.std_qa, loc.cycle.buf)
        /\ SomeWaitMatch(call.no_qa, loc.cycle.buf)) =>
          loc.hit_count = 0 /\ loc.cycle.reply = <<>>

\* C14: the count of run_cmd_qa holds consecutive cycles only: after a cycle
\* that read new output, replied to a question or matched a wait pattern the
\* count is zero
C14_CountRestarts ==
    InCycle("run_cmd_qa") =>
        LET c == loc.cycle
        IN (\/ c.out # <<>>
            \/ c.answered > 0
            \/ c.std_answered > 0
            \/ SomeWaitMatch(call.no_qa, c.buf)) => loc.hit_count = 0

\* C15: the stall error of run_shell_cmd is raised only when the cycles
\* without a match counted since the last match, one check interval each, add
\* up to more than qa_timeout
C15_StallOnlyPastTimeout ==
    (RaisedEasyBuildError("stall") /\ call.fn = "run_shell_cmd") =>
        outcome.time_no_match > call.qa_timeout

\* the question of the child has been read and is about to be looked at
QuestionRead ==
    /\ call.fn = "run_shell_cmd"
    /\ pc = "rsc_qa"
    /\ SomeMatch(call.qa_patterns, loc.stdout)

\* the child was sent the answer and a newline, and has run to completion: the
\* call has read the rest of its output and ended, with a result unless the
\* command failed or its output could not be written
AnsweredAndCompleted ==
    /\ pc = "done"
    /\ Len(proc.input) >= 2
    /\ SubSeq(proc.input, 1, 2) = <<"y", "\n">>
    /\ proc.st = "exited"
    /\ Happened("drain")
    /\ ~RaisedEasyBuildError("stall")
    /\ (~ShouldRaise([exit_code |-> proc.ec], call) /\ ~Happened("write_failed"))
          => outcome.kind = "return"

Before(e, f) ==
    \A i, j \in 1..Len(events): (events[i] = f /\ events[j] = e) => j < i

\* C17: within one call the post-hook is never run after the result has been
\* put together: pre-hook, spawn, reading of the output and post-hook all come
\* before the result
C17_PostHookBeforeResult ==
    /\ Before("pre_hook", "spawn")
    /\ Before("spawn", "drain")
    /\ Before("drain", "post_hook")
    /\ Before("post_hook", "result")

\* the hooks are run for the current call (run_cmd_qa always runs them)
HooksEnabled == call.fn = "run_cmd_qa" \/ call.with_hooks

\* the process of the current call was spawned and ran to completion, and the
\* call read all of its output
CompletedCommand ==
    /\ pc = "done"
    /\ call.fn \in {"run_shell_cmd", "run_cmd", "run_cmd_qa"}
    /\ Happened("spawn")
    /\ Happened("drain")
    /\ call.fn = "run_shell_cmd" => Happened("result")

\* C18: with hooks enabled, a call whose command ran to completion has run the
\* post-hook exactly once, whatever the exit code, fail_on_error set or not
C18_PostHookExactlyOnce ==
    (CompletedCommand /\ HooksEnabled) =>
        Cardinality({k \in DOMAIN events : events[k] = "post_hook"}) = 1

\* the pre-hook of the current call returned a replacement command
HookReturnedReplacement ==
    call.with_hooks /\ call.hook_res # NoHookRes

\* the command the process of the current call is to run by C19
CommandToRun == IF HookReturnedReplacement THEN call.hook_res ELSE call.cmd

\* C19: the process spawned by run_shell_cmd or run_cmd runs the replacement
\* command when the pre-hook returned one and the original command when it
\* returned nothing, and the cmd of a result of run_shell_cmd is the display
\* string of the command that was run
C19_ReplacementIsSpawned ==
    (call.fn \in Funcs /\ proc.st # "none") =>
        /\ proc.cmd = CommandToRun
        /\ (call.fn = "run_shell_cmd" /\ pc = "done" /\ outcome.kind = "return")
              => outcome.val.cmd = to_cmd_str(CommandToRun)

\* the current call of run_cmd has ended after parse_cmd_output looked at the
\* output and the exit code of its command
Parsed == pc = "done" /\ call.fn = "run_cmd" /\ Happened("drain")

\* C20: parse_cmd_output under the strictness level: a level that is none of
\* IGNORE, WARN, ERROR raises the invalid-strictness error; under IGNORE a
\* non-zero exit code never raises; under WARN and ERROR a non-zero exit code
\* raises when log_ok or log_all is set; in simple mode the value returned is
\* True for exit code 0, and for a non-zero exit code True exactly when the
\* level is IGNORE (the exit code is not checked)
C20_StrictnessPolicy ==
    Parsed =>
        /\ strictness \notin {IGNORE, WARN, ERROR}
              => RaisedEasyBuildError("invalid_strictness")
        /\ (strictness = IGNORE /\ proc.ec # 0) => outcome.kind = "return"
        /\ (/\ strictness \in {WARN, ERROR}
            /\ proc.ec # 0
            /\ call.log_ok \/ call.log_all)
              => RaisedEasyBuildError("exit_code")
        /\ (call.simple /\ outcome.kind = "return")
              => outcome.val = Simple(proc.ec = 0 \/ strictness = IGNORE)

\* C20, reached: under WARN a non-zero exit code nobody asked to log did not
\* raise, and simple mode returned False
C20_WarnNotLoggedReturnsFalse ==
    /\ Parsed
    /\ strictness = WARN
    /\ proc.ec # 0
    /\ ~call.log_ok /\ ~call.log_all
    /\ call.simple
    /\ outcome.kind = "return"
    /\ outcome.val = Simple(FALSE)

\* a line of what the command of the current call wrote matches the default
\* error pattern, and the call looks for it (regexp is not switched off)
ErrorLineInOutput ==
    /\ call.regexp
    /\ \E k \in DOMAIN proc.out: proc.out[k] = "Error"

\* C21: for a command that exited 0 with a line matching the error pattern in
\* its output, parse_cmd_output raises under ERROR; under WARN the match is
\* logged as a warning and the call returns success with exit code 0
C21_ErrorLineRaisesOnlyUnderError ==
    (Parsed /\ proc.ec = 0 /\ ErrorLineInOutput) =>
        /\ strictness = ERROR => RaisedEasyBuildError("error_match")
        /\ strictness = WARN =>
              /\ outcome.kind = "return"
              /\ Happened("warn_match")
              /\ outcome.val = IF call.simple THEN Simple(TRUE)
                                ELSE OutputAndEc(proc.out, 0)

\* C21, reached: under WARN a call returned exit code 0 and an output with a
\* line that matches
C21_WarnedAndReturnedZero ==
    /\ Parsed /\ proc.ec = 0 /\ ErrorLineInOutput
    /\ strictness = WARN
    /\ ~call.simple
    /\ outcome.kind = "return"
    /\ outcome.val.ec = 0
    /\ Happened("warn_match")

\* C22: under IGNORE parse_cmd_output does not scan the output: the first call
\* of a module started under IGNORE reports no pattern match and leaves
\* errors_found_in_log at the 0 it started with
C22_IgnoreDoesNotScan ==
    (Parsed /\ strictness = IGNORE /\ ncalls = 1) =>
        /\ ~Happened("warn_match")
        /\ errors_found_in_log = 0

\* the current call of fn was given valid rules and has ended
LogCallEnded(fn) ==
    pc = "done" /\ call.fn = fn /\ ~InvalidInput(call.reg_exps)

\* the action of the first rule, in the order given, whose pattern is found in
\* the line: "none" when no rule matches
Fate(line) ==
    LET rules == RegExpsList(call.reg_exps)
        matching == {k \in DOMAIN rules : \E t \in DOMAIN line: line[t] \in rules[k].re}
    IN IF matching = {} THEN "none"
       ELSE LET first == CHOOSE k \in matching: \A j \in matching: k <= j
            IN IF rules[first].type = "str" THEN ERROR ELSE rules[first].action

\* l is one of the elements of the list
Listed(l, list) == \E k \in DOMAIN list: list[k] = l

\* C23: extract_errors_from_log lets the first rule that matches a line decide:
\* the line is among the errors exactly if that rule's action is ERROR and
\* among the warnings exactly if it is WARN, so no line is in both and a line
\* whose first matching rule is IGNORE, or that no rule matches, is in neither
C23_FirstMatchingRuleDecides ==
    LogCallEnded("extract_errors_from_log") =>
        /\ outcome.kind = "return"
        /\ \A k \in DOMAIN SplitLines(call.log_txt):
              LET line == SplitLines(call.log_txt)[k]
              IN /\ Listed(line, outcome.val.errors) <=> Fate(line) = ERROR
                 /\ Listed(line, outcome.val.warnings) <=> Fate(line) = WARN
        /\ \A k \in DOMAIN outcome.val.errors:
              Listed(outcome.val.errors[k], SplitLines(call.log_txt))
        /\ \A k \in DOMAIN outcome.val.warnings:
              Listed(outcome.val.warnings[k], SplitLines(call.log_txt))

\* C23, reached: a line that an ERROR rule matches too went to the warnings
\* because a WARN rule that comes first matches it
C23_EarlierWarnRuleWon ==
    /\ LogCallEnded("extract_errors_from_log")
    /\ Len(RegExpsList(call.reg_exps)) = 2
    /\ RegExpsList(call.reg_exps)[1].re = {"Error", "warning"}
    /\ outcome.val.warnings = << <<"Error">> >>
    /\ outcome.val.errors = <<>>

\* the lines of the log text of the current call whose fate is the action
LinesWithFate(action) ==
    {SplitLines(call.log_txt)[k] : k \in
        {j \in DOMAIN SplitLines(call.log_txt) :
            Fate(SplitLines(call.log_txt)[j]) = action}}

\* C24: check_log_for_errors raises if and only if a line was matched as an
\* error, and the error it raises lists every such line; when lines were only
\* matched as warnings they are logged and the call returns
C24_RaisesIffErrorMatched ==
    LogCallEnded("check_log_for_errors") =>
        /\ outcome.kind = "EasyBuildError" <=> LinesWithFate(ERROR) # {}
        /\ outcome.kind = "EasyBuildError" =>
              /\ outcome.what = "errors_found"
              /\ {outcome.lines[k] : k \in DOMAIN outcome.lines}
                    = LinesWithFate(ERROR)
        /\ outcome.kind # "EasyBuildError" => outcome.kind = "return"
        /\ Happened("warn_found") <=> LinesWithFate(WARN) # {}

\* C24, reached: lines were matched as warnings only, and the call returned
C24_OnlyWarningsReturned ==
    /\ LogCallEnded("check_log_for_errors")
    /\ LinesWithFate(WARN) # {}
    /\ LinesWithFate(ERROR) = {}
    /\ Happened("warn_found")
    /\ outcome.kind = "return"

\* the current call of a decorated function is the first since a cache method
\* of that function was used
FirstCallSince(method) ==
    /\ call.fn \in Funcs
    /\ prev.fn = method
    /\ prev.of = call.fn

\* C25: right after clear_cache the cache of the function is empty, and the
\* next call of the function is not served from the cache: its command is
\* spawned again.  After update_cache(entries) a call of a string command
\* whose key (command, input) is among the entries returns the inserted value
\* and spawns nothing
C25_ClearAndUpdateCache ==
    /\ call.fn = "clear_cache" => cache[call.of] = EmptyDict
    /\ FirstCallSince("clear_cache") =>
          /\ events # <<"cache_hit">>
          /\ pc = "done" => (Happened("spawn") \/ Happened("spawn_failed"))
    /\ (/\ FirstCallSince("update_cache")
        /\ call.cmd.type = "str"
        /\ <<call.cmd, KwInput(call)>> \in DOMAIN prev.entries) =>
          /\ pc = "done"
          /\ outcome = [kind |-> "return",
                         val |-> prev.entries[<<call.cmd, KwInput(call)>>]]
          /\ proc = NoProc
          /\ ~Happened("spawn")

\* C25, reached: the second call of an allow-listed command, made right after
\* clear_cache, spawned a process and returned
C25_SpawnedAgainAfterClear ==
    /\ FirstCallSince("clear_cache")
    /\ ncalls = 2
    /\ InCachedCommands(call.cmd)
    /\ Happened("spawn")
    /\ pc = "done"
    /\ outcome.kind = "return"

\* a is the beginning of b
IsPrefix(a, b) == Len(a) <= Len(b) /\ SubSeq(b, 1, Len(a)) = a

\* an asynchronous run_cmd returns in the step that spawns: the handle, with
\* the process running and none of its output read
AsyncReturnsAtSpawn ==
    (pc = "rc_spawn" /\ call.asynchronous /\ pc' = "done"
        /\ outcome'.kind = "return") =>
        /\ outcome'.val = Handle(loc.owd)
        /\ proc'.st = "running"
        /\ events'[Len(events')] = "spawn"

\* check_async_cmd returns from its poll
CheckEnds == call.fn = "check_async_cmd" /\ pc = "cac_poll" /\ pc' = "done"

\* a check that polls a running process reports done = false and no exit code
RunningReported ==
    (CheckEnds /\ proc.st = "running") =>
        /\ outcome'.kind = "return"
        /\ ~outcome'.val.done
        /\ outcome'.val.exit_code = None

\* a check that returns reports output that begins with the output passed in
OutputExtended ==
    (CheckEnds /\ outcome'.kind = "return") =>
        IsPrefix(call.output, outcome'.val.output)

\* a check that polls a process that has exited reports done = true and the
\* exit code
ExitReported ==
    /\ outcome'.kind = "return"
    /\ outcome'.val.done
    /\ outcome'.val.exit_code = proc.ec

C27_TimedCallEnds ==
    (call.fn = "run_shell_cmd" /\ call.timeout # <<>> /\ pc = "rsc_enter")
        ~> (pc = "done")

\* the number of times e is in the events of the call
Times(e) == Cardinality({k \in DOMAIN events : events[k] = e})

\* C28: a spawn that fails ends the call at once with an error, whatever
\* fail_on_error, log_ok and strictness are: the spawn was tried once, nothing
\* is returned, and no post-hook is called
C28_SpawnFailureIsFatal ==
    Happened("spawn_failed") =>
        /\ pc = "done"
        /\ outcome.kind \in {"EasyBuildError", "OSError"}
        /\ outcome.what = "spawn"
        /\ Times("spawn_failed") = 1
        /\ ~Happened("spawn")
        /\ ~Happened("post_hook")
        /\ events[Len(events)] \in {"spawn_failed", "close_log"}

\* a spawn failed under ERROR strictness in a call that asked for no error on
\* failure
C28_SpawnFailedWithFlagsOff ==
    /\ Happened("spawn_failed")
    /\ strictness = ERROR
    /\ \/ call.fn = "run_shell_cmd" /\ ~call.fail_on_error
       \/ call.fn = "run_cmd_qa" /\ ~call.log_ok /\ call.log_all

\* the output of the result a call returned
ResultOutput == IF call.fn = "run_cmd" THEN outcome.val.out ELSE outcome.val.output

\* a call that collected the output of its child in a poll loop has returned
LoopCallReturned ==
    /\ pc = "done"
    /\ call.fn \in {"run_shell_cmd", "run_cmd"}
    /\ outcome.kind = "return"
    /\ Happened("drain")

\* C29: the output of the result is what the reads of the poll loop got, in the
\* order they got it, followed by what was drained after the exit: all that
\* the child wrote, with one drain, after the last read of the loop
C29_OutputIsReadsThenDrain ==
    LoopCallReturned =>
        /\ ResultOutput = proc.out
        /\ Times("drain") = 1
        /\ Before("read", "drain")
        /\ Before("drain", "result")

\* the output the call had collected when it last looked for a question
LastLookedAt == IF loc.cycle.n = 0 THEN <<>> ELSE loc.cycle.buf

\* C30: a cycle of an interactive run_shell_cmd in which new output has come
\* does not count toward qa_timeout: it neither adds to time_no_match nor ends
\* the call with the stall error
C30_NewOutputIsNotCounted ==
    [][(/\ call.fn = "run_shell_cmd"
        /\ pc = "rsc_qa"
        /\ loc.stdout # LastLookedAt) =>
            /\ pc' # "done"
            /\ loc'.time_no_match <= loc.time_no_match]_vars

\* the last cycle replied to question i, and no output has come since
RepliedAndNothingNew(i) ==
    /\ "cycle" \in DOMAIN loc
    /\ loc.cycle.n = 1
    /\ loc.cycle.answered = i
    /\ \/ call.fn = "run_shell_cmd" /\ pc = "rsc_qa" /\ loc.stdout = loc.cycle.buf
       \/ call.fn = "run_cmd_qa" /\ pc = "rq_loop" /\ pipe = <<>>

\* C31: a question in the output is answered at most once: the cycle that
\* follows a reply to a question pattern, with no new output of the process
\* in between, sends no second reply for that pattern (run_shell_cmd and
\* run_cmd_qa)
C31_NoReplyWithoutNewOutput ==
    [][\A i \in 1..2:
          (RepliedAndNothingNew(i) /\ pc' \in {"rsc_sleep", "rq_sleep"}) =>
              ~(loc'.cycle.answered = i /\ loc'.cycle.reply # <<>>)]_vars

\* a call of run_shell_cmd that streams the output, with a timeout
StreamsWithTimeout ==
    /\ call.fn = "run_shell_cmd"
    /\ call.stream_output
    /\ TimeoutSet(call)

\* C32: in the streaming loop of run_shell_cmd with a timeout, all that the
\* child wrote before it exited is in the output of the result, once and in
\* order; no read is started on the pipe while the thread of a read that was
\* given up is still in its read
C32_NoOutputLostToAbandonedRead ==
    StreamsWithTimeout =>
        /\ (pc = "done" /\ outcome.kind = "return" /\ Happened("drain")) =>
               outcome.val.output = proc.out
        /\ pc \in {"rsc_read", "rsc_drain"} => ~Leaked(loc)

\* C33: when an interactive call of run_shell_cmd has ended, the answer lists
\* of the caller hold the elements they held when the call started, in that
\* order (run_cmd_qa works on copies, lines 1001-1002)
C33_AnswerListsUnchanged ==
    (pc = "done" /\ call.fn = "run_shell_cmd" /\ Interactive(call)) =>
        caller.qa_patterns = call.qa_patterns

\* lines 363-364: the working directory of a call
WorkDirOf(c) == IF c.work_dir = None THEN "cwd" ELSE c.work_dir

\* C34: the result a call of run_shell_cmd returns is that of this call: its
\* work_dir is the working directory of the call, and it has a stderr exactly
\* when the call asked for split_stderr, also when it comes from the cache
C34_ResultDescribesThisCall ==
    (pc = "done" /\ call.fn = "run_shell_cmd" /\ outcome.kind = "return") =>
        /\ outcome.val.work_dir = WorkDirOf(call)
        /\ outcome.val.stderr.type = "str" <=> call.split_stderr

\* a call of run_shell_cmd or run_cmd ends in this step and its result is
\* put into the cache
ResultStored ==
    /\ pc # "done" /\ pc' = "done"
    /\ call.fn \in Funcs
    /\ cache' # cache

\* C35: every entry of the cache is the result of a process that was run, so
\* that a call that forces execution in dry-run mode is never served the
\* made-up result of a dry run: a result is stored only by a call that spawned
C35_OnlyRealResultsCached ==
    [][ResultStored => \E k \in DOMAIN events': events'[k] = "spawn"]_vars

\* the first call, one of run_cmd or run_cmd_qa, has ended
FirstCallEnded ==
    /\ pc = "done"
    /\ ncalls = 1
    /\ call.fn \in {"run_cmd", "run_cmd_qa"}

\* C36: when a call of run_cmd or run_cmd_qa has returned or raised, the
\* working directory of the process is the one the call started in
C36_WorkingDirectoryRestored ==
    FirstCallEnded => caller.cwd = NoCaller.cwd

\* C37: when a synchronous call of run_cmd or run_cmd_qa has returned or
\* raised, every temporary command log it opened has been closed
C37_CommandLogClosed ==
    FirstCallEnded => Times("close_log") = Times("open_log")

\* C38: when run_cmd has ended, the command object of the caller is what
\* the caller passed
C38_CommandUnchanged ==
    (pc = "done" /\ call.fn = "run_cmd") => caller.cmd = call.cmd

\* both threads have their result
BothReturned == pc = "threads" /\ \A t \in Threads: loc[t].at = "done"

\* C39: when two threads called with the same allow-listed command and input
\* on an empty cache and both have returned, the command was spawned at most
\* once and both hold the same result
C39_SpawnedOnceSameResult ==
    BothReturned => /\ Times("spawn") <= 1
                    /\ loc[1].res = loc[2].res

====
